---- MODULE Spec2Model ----
(***************************************************************************)
(* A model of the task board's store (store/index.ts), of the             *)
(* StorageService it persists through (services/storage.ts), of the       *)
(* effects of the BoardList and Board components, and of the browser's    *)
(* job queue that runs their asynchronous functions.                      *)
(*                                                                         *)
(* An asynchronous function runs synchronously up to its first await; the  *)
(* rest of it is a job on the queue, and jobs run first in, first out.     *)
(* Every StorageService method reads localStorage before its await and     *)
(* writes after it, so a frame of the queue holds what the method read.    *)
(***************************************************************************)
EXTENDS Integers, Sequences, FiniteSets, TLC

\* Bounds of the model.
MaxBoards == 1
MaxLists == 2
MaxCards == 3
MaxLen == 3
MaxOps == 2
MaxClock == 1
MaxOutages == 1
MaxInFlight == 2

VARIABLES
    boards,        \* AppState.boards: Board[]
    lists,         \* AppState.lists: Record<boardId, List[]>
    cards,         \* AppState.cards: Record<listId, Card[]>
    loading,       \* AppState.loading: {boards, saving, error}
    localStorage,  \* the browser's localStorage: key -> parsed JSON text
    storageMode,   \* "ok", "unavailable" (every setItem throws), "quota" (large setItem throws)
    queue,         \* the job queue: the continuations of the suspended async functions
    created,       \* how many boards, lists and cards were created so far
    ops,           \* how many operations other than creations were issued so far
    outages,       \* how many times the backing store stopped accepting writes
    clock,         \* the time new Date() reads
    inflight,      \* number of store operations issued and not yet completed
    limit,         \* how many store operations the caller issues before awaiting one
    last,          \* the store operation that completed last, with the state it was issued in
    view           \* the mounted components: what their last render saw, what their effects did

vars == <<boards, lists, cards, loading, localStorage, storageMode, queue,
          created, ops, outages, clock, inflight, limit, last, view>>

\* what the store operations leave alone: the environment and the components
envVars == <<storageMode, outages, clock, limit, view>>

----------------------------------------------------------------------------
\* JavaScript values

\* the value undefined, as the value of a key of AppState.lists or AppState.cards
Undefined == <<[undefined |-> TRUE]>>
\* the value null of loading.error
Null == "null"
\* {} : a Record without keys
EmptyMap == [k \in {} |-> <<>>]

\* record[key]
Get(m, k) == IF k \in DOMAIN m THEN m[k] ELSE Undefined
\* value || []
OrEmpty(v) == IF v = Undefined THEN <<>> ELSE v
\* { [key]: value }: the record without the spread of the others
PutAlone(m, k, v) == (k :> v)
\* { ...record, [key]: value }
Put(m, k, v) == [x \in (DOMAIN m) \cup {k} |-> IF x = k THEN v ELSE m[x]]
\* delete record[key]
Remove(m, k) == [x \in (DOMAIN m) \ {k} |-> m[x]]

\* array.filter(e => e.id !== id)
RECURSIVE FilterOut(_, _)
FilterOut(s, id) ==
    IF s = <<>> THEN <<>>
    ELSE IF Head(s).id = id THEN FilterOut(Tail(s), id)
         ELSE <<Head(s)>> \o FilterOut(Tail(s), id)

\* array.findIndex(e => e.id === id), zero-based, -1 when there is none
FindIndex(s, id) ==
    IF \E i \in 1..Len(s) : s[i].id = id
    THEN (CHOOSE i \in 1..Len(s) : s[i].id = id /\ \A j \in 1..(i-1) : s[j].id # id) - 1
    ELSE -1

\* a map that replaces nothing
ReplaceByIdSkipped(s, id, entity) == s
\* array.map(e => e.id === id ? entity : e)
ReplaceById(s, id, entity) == [i \in 1..Len(s) |-> IF s[i].id = id THEN entity ELSE s[i]]

\* a map that keeps the positions the elements had
RenumberSkipped(s) == s
\* array.map((e, index) => ({ ...e, position: index }))
Renumber(s) == [i \in 1..Len(s) |-> [s[i] EXCEPT !.position = i - 1]]

\* array.splice(start, 0, item) on a copy: a negative start counts from the end
Splice(s, start, item) ==
    LET n == Len(s)
        at == IF start < 0 THEN (IF n + start < 0 THEN 0 ELSE n + start)
              ELSE (IF start > n THEN n ELSE start)
    IN  SubSeq(s, 1, at) \o <<item>> \o SubSeq(s, at + 1, n)

\* the ids of a collection, in order
Ids(s) == [i \in 1..Len(s) |-> s[i].id]

\* new Date(): a Date object holding the current time
Date(t) == [date |-> TRUE, t |-> t]

----------------------------------------------------------------------------
\* JSON.stringify followed by JSON.parse

\* a Date becomes its ISO string; a string stays a string
JsonTs(ts) == [date |-> FALSE, t |-> ts.t]
JsonEntity(e) ==
    [f \in DOMAIN e |-> IF f \in {"createdAt", "updatedAt"} THEN JsonTs(e[f]) ELSE e[f]]
JsonArray(s) == [i \in 1..Len(s) |-> JsonEntity(s[i])]
JsonRecord(m) == [k \in DOMAIN m |-> JsonArray(m[k])]
Json(key, data) == IF key = "boards" THEN JsonArray(data) ELSE JsonRecord(data)

----------------------------------------------------------------------------
\* StorageService

IsStorageAvailable == storageMode # "unavailable"

\* the map of getData over a parsed array
Revive(item) ==
    [f \in DOMAIN item |-> IF f \in {"createdAt", "updatedAt"}
                           THEN [date |-> TRUE, t |-> item[f].t] ELSE item[f]]

\* getData(key, defaultValue) read from the storage ls
GetDataFrom(ls, key, defaultValue) ==
    IF ~IsStorageAvailable THEN defaultValue
    ELSE IF key \notin DOMAIN ls THEN defaultValue
    ELSE IF key = "boards"
         THEN [i \in 1..Len(ls[key]) |-> Revive(ls[key][i])]
         ELSE ls[key]
GetData(key, defaultValue) == GetDataFrom(localStorage, key, defaultValue)

\* setData(key, data) applied to the storage ls: the storage afterwards
SetDataTo(ls, key, data) ==
    IF ~IsStorageAvailable THEN ls
    ELSE IF storageMode = "quota" THEN ls
    ELSE Put(ls, key, Json(key, data))

\* localStorage.setItem throws, in isStorageAvailable's probe or in setData's write
SetItemThrows == storageMode # "ok"

\* the array a save method writes: the entity replaces the one of its id or is pushed
Upsert(s, entity) ==
    IF FindIndex(s, entity.id) >= 0
    THEN [i \in 1..Len(s) |-> IF i = FindIndex(s, entity.id) + 1 THEN entity ELSE s[i]]
    ELSE Append(s, entity)

\* what saveBoard writes, from the boards it read
SaveBoardData(board) == Upsert(GetData("boards", <<>>), board)
\* what saveList writes, from the lists it read
SaveListData(list) ==
    LET listsData == GetData("lists", EmptyMap)
    IN  Put(listsData, list.boardId, Upsert(OrEmpty(Get(listsData, list.boardId)), list))
\* what saveCard writes, from the cards it read
SaveCardData(card) ==
    LET cardsData == GetData("cards", EmptyMap)
    IN  Put(cardsData, card.listId, Upsert(OrEmpty(Get(cardsData, card.listId)), card))

----------------------------------------------------------------------------
\* The queue and the record of the last completed operation

NoOp == [op |-> "none"]
\* a promise that never resolves: nothing is queued
ResumeDropped(cont, threw) == <<>>
\* the frames a resolved promise queues; threw records that a setItem of the
\* operation threw (and was caught inside StorageService)
Resume(cont, threw) == [i \in 1..Len(cont) |-> [cont[i] EXCEPT !.threw = @ \/ threw]]
Idle == queue = <<>>
Snapshot == [boards |-> boards, lists |-> lists, cards |-> cards,
             localStorage |-> localStorage, now |-> clock]
CanIssue == inflight < limit
\* generateId(): an id no entity has had before
GenerateId == created.boards + created.lists + created.cards + 1

\* the ids of the boards and lists the views show
BoardIdsShown == {boards[i].id : i \in 1..Len(boards)}
ListIdsShown ==
    UNION {{OrEmpty(lists[b])[i].id : i \in 1..Len(OrEmpty(lists[b]))} : b \in DOMAIN lists}
CardIdsShown ==
    UNION {{OrEmpty(cards[l])[i].id : i \in 1..Len(OrEmpty(cards[l]))} : l \in DOMAIN cards}
Titles == {"A"}

\* no component is mounted: BoardList has not rendered and no board is open
NoView ==
    [modal |-> FALSE,
     boardList |-> [mounted |-> FALSE, deps |-> <<>>, seen |-> <<>>, calls |-> 0],
     board |-> [open |-> FALSE, boardId |-> 0, changed |-> FALSE, length |-> 0]]
\* set(state => ({ lists: { ...state.lists, ... } })) makes state.lists a new
\* object: an open Board renders again with a lists that is not the one its
\* effect saw
ListsReplaced ==
    IF view.board.open THEN [view EXCEPT !.board.changed = TRUE] ELSE view

Init ==
    /\ boards = <<>>
    /\ lists = EmptyMap
    /\ cards = EmptyMap
    /\ loading = [boards |-> FALSE, saving |-> FALSE, error |-> Null]
    /\ localStorage = EmptyMap
    /\ storageMode = "ok"
    /\ queue = <<>>
    /\ created = [boards |-> 0, lists |-> 0, cards |-> 0]
    /\ outages = 0
    /\ ops = 0
    /\ clock = 0
    /\ inflight = 0
    /\ limit = 1
    /\ last = NoOp
    /\ view = NoView

----------------------------------------------------------------------------
\* The environment

\* the backing store becomes unavailable, full, or usable again
SetStorageMode ==
    /\ \E m \in {"ok", "unavailable", "quota"} :
          /\ (storageMode = "ok") # (m = "ok")
          /\ storageMode = "ok" => outages < MaxOutages
          /\ storageMode' = m
          /\ outages' = IF storageMode = "ok" THEN outages + 1 ELSE outages
    /\ UNCHANGED <<boards, lists, cards, loading, localStorage, queue, created, ops, clock,
                   inflight, limit, view, last>>

\* time passes
AdvanceClock ==
    /\ clock < MaxClock
    /\ clock' = clock + 1
    /\ UNCHANGED <<boards, lists, cards, loading, localStorage, storageMode, queue,
                   created, ops, outages, inflight, limit, view, last>>

----------------------------------------------------------------------------
\* StorageService jobs

\* the part after the await of saveBoard, saveList, saveCard, deleteCard,
\* updateListPositions, updateCardPositions and deleteListCards: setData, and the
\* method's promise resolves, which queues the continuation of its caller
SetDataJob ==
    /\ queue # <<>>
    /\ Head(queue).pc = "setData"
    /\ localStorage' = SetDataTo(localStorage, Head(queue).key, Head(queue).data)
    /\ queue' = Tail(queue) \o Resume(Head(queue).cont, SetItemThrows)
    /\ UNCHANGED <<ops, boards, lists, cards, loading, storageMode, created, outages, clock,
                   inflight, limit, view, last>>

----------------------------------------------------------------------------
\* Store: createBoard, createList, createCard

StartSaving == [loading EXCEPT !.saving = TRUE, !.error = Null]

\* a catch that swallows the error: the error slot keeps what it held
SetErrorDropped(message) == loading
\* the catch of a store operation that does not show the saving flag:
\* set({ loading: { ...get().loading, error: error.message } })
SetError(message) == [loading EXCEPT !.error = message]

CreateBoard(title) ==
    /\ CanIssue
    /\ created.boards < MaxBoards
    /\ LET board == [id |-> GenerateId, title |-> title,
                     createdAt |-> Date(clock), updatedAt |-> Date(clock)]
       IN  queue' = Append(queue,
               [pc |-> "setData", key |-> "boards", data |-> SaveBoardData(board),
                cont |-> <<[pc |-> "createBoard", board |-> board, pre |-> Snapshot, threw |-> FALSE]>>])
    /\ loading' = StartSaving
    /\ created' = [created EXCEPT !.boards = @ + 1]
    /\ inflight' = inflight + 1
    /\ last' = NoOp
    /\ UNCHANGED <<ops, boards, lists, cards, localStorage, storageMode, outages, clock, limit, view>>

CreateBoardCommit ==
    /\ queue # <<>>
    /\ Head(queue).pc = "createBoard"
    /\ boards' = Append(boards, Head(queue).board)
    /\ loading' = [loading EXCEPT !.saving = FALSE]
    /\ queue' = Tail(queue)
    /\ inflight' = inflight - 1
    /\ last' = [op |-> "createBoard", id |-> Head(queue).board.id, failed |-> FALSE,
                threw |-> Head(queue).threw, pre |-> Head(queue).pre]
    /\ UNCHANGED <<ops, lists, cards, localStorage, storageMode, created, outages, clock, limit, view>>

CreateList(boardId, title) ==
    /\ CanIssue
    /\ created.lists < MaxLists
    /\ LET boardLists == OrEmpty(Get(lists, boardId))
           list == [id |-> GenerateId, title |-> title, boardId |-> boardId,
                    position |-> Len(boardLists), createdAt |-> Date(clock)]
       IN  queue' = Append(queue,
               [pc |-> "setData", key |-> "lists", data |-> SaveListData(list),
                cont |-> <<[pc |-> "createList", list |-> list, pre |-> Snapshot, threw |-> FALSE]>>])
    /\ loading' = StartSaving
    /\ created' = [created EXCEPT !.lists = @ + 1]
    /\ inflight' = inflight + 1
    /\ last' = NoOp
    /\ UNCHANGED <<ops, boards, lists, cards, localStorage, storageMode, outages, clock, limit, view>>

CreateListCommit ==
    /\ queue # <<>>
    /\ Head(queue).pc = "createList"
    /\ LET list == Head(queue).list
       IN  /\ lists' = Put(lists, list.boardId,
                           Append(OrEmpty(Get(lists, list.boardId)), list))
           /\ last' = [op |-> "createList", id |-> list.id, boardId |-> list.boardId,
                       failed |-> FALSE, threw |-> Head(queue).threw,
                       pre |-> Head(queue).pre]
    /\ loading' = [loading EXCEPT !.saving = FALSE]
    /\ queue' = Tail(queue)
    /\ inflight' = inflight - 1
    /\ view' = ListsReplaced
    /\ UNCHANGED <<ops, boards, cards, localStorage, storageMode, created, outages, clock, limit>>

CreateCard(listId, title) ==
    /\ CanIssue
    /\ created.cards < MaxCards
    /\ LET listCards == OrEmpty(Get(cards, listId))
           card == [id |-> GenerateId, title |-> title, listId |-> listId,
                    position |-> Len(listCards),
                    createdAt |-> Date(clock), updatedAt |-> Date(clock)]
       IN  queue' = Append(queue,
               [pc |-> "setData", key |-> "cards", data |-> SaveCardData(card),
                cont |-> <<[pc |-> "createCard", card |-> card, pre |-> Snapshot, threw |-> FALSE]>>])
    /\ loading' = StartSaving
    /\ created' = [created EXCEPT !.cards = @ + 1]
    /\ inflight' = inflight + 1
    /\ last' = NoOp
    /\ UNCHANGED <<ops, boards, lists, cards, localStorage, storageMode, outages, clock, limit, view>>

CreateCardCommit ==
    /\ queue # <<>>
    /\ Head(queue).pc = "createCard"
    /\ LET card == Head(queue).card
       IN  /\ cards' = Put(cards, card.listId,
                           Append(OrEmpty(Get(cards, card.listId)), card))
           /\ last' = [op |-> "createCard", id |-> card.id, listId |-> card.listId,
                       failed |-> FALSE, threw |-> Head(queue).threw,
                       pre |-> Head(queue).pre]
    /\ loading' = [loading EXCEPT !.saving = FALSE]
    /\ queue' = Tail(queue)
    /\ inflight' = inflight - 1
    /\ UNCHANGED <<ops, boards, lists, localStorage, storageMode, created, outages, clock, limit, view>>

----------------------------------------------------------------------------
\* Store: deleteCard, deleteList, deleteBoard

\* what StorageService.deleteCard writes, from the cards it read
DeleteCardData(cardId, listId) ==
    LET cardsData == GetData("cards", EmptyMap)
        filteredCards == FilterOut(OrEmpty(Get(cardsData, listId)), cardId)
    IN  IF filteredCards = <<>> THEN Remove(cardsData, listId)
        ELSE Put(cardsData, listId, filteredCards)

DeleteCard(id, listId) ==
    /\ CanIssue
    /\ ops < MaxOps
    /\ ops' = ops + 1
    /\ queue' = Append(queue,
           [pc |-> "setData", key |-> "cards", data |-> DeleteCardData(id, listId),
            cont |-> <<[pc |-> "deleteCard", id |-> id, listId |-> listId,
                        pre |-> Snapshot, threw |-> FALSE]>>])
    /\ loading' = StartSaving
    /\ inflight' = inflight + 1
    /\ last' = NoOp
    /\ UNCHANGED <<boards, lists, cards, localStorage, created, envVars>>

DeleteCardCommit ==
    /\ queue # <<>>
    /\ Head(queue).pc = "deleteCard"
    /\ LET f == Head(queue)
       IN  /\ cards' = Put(cards, f.listId, FilterOut(OrEmpty(Get(cards, f.listId)), f.id))
           /\ last' = [op |-> "deleteCard", id |-> f.id, listId |-> f.listId,
                       failed |-> FALSE, threw |-> f.threw, pre |-> f.pre]
    /\ loading' = [loading EXCEPT !.saving = FALSE]
    /\ queue' = Tail(queue)
    /\ inflight' = inflight - 1
    /\ UNCHANGED <<ops, boards, lists, localStorage, created, envVars>>

\* what StorageService.deleteList writes to the lists, from the lists it read
DeleteListData(listId, boardId) ==
    LET listsData == GetData("lists", EmptyMap)
        filteredLists == FilterOut(OrEmpty(Get(listsData, boardId)), listId)
    IN  IF filteredLists = <<>> THEN Remove(listsData, boardId)
        ELSE Put(listsData, boardId, filteredLists)

DeleteList(id, boardId) ==
    /\ CanIssue
    /\ ops < MaxOps
    /\ ops' = ops + 1
    /\ queue' = Append(queue,
           [pc |-> "deleteList", data |-> DeleteListData(id, boardId), listId |-> id,
            cont |-> <<[pc |-> "return",
                        cont |-> <<[pc |-> "deleteListCommit", id |-> id,
                                    boardId |-> boardId, pre |-> Snapshot,
                                    threw |-> FALSE]>>,
                        threw |-> FALSE]>>])
    /\ loading' = StartSaving
    /\ inflight' = inflight + 1
    /\ last' = NoOp
    /\ UNCHANGED <<boards, lists, cards, localStorage, created, envVars>>

\* a deleteListCards that keeps the cards of the list
DeleteListCardsKept(cardsData, listId) == cardsData
\* what deleteListCards writes, from the cards it read: delete cardsData[listId]
DeleteListCardsData(cardsData, listId) == Remove(cardsData, listId)

\* StorageService.deleteList after its await: it writes the lists and calls
\* deleteListCards, which reads the cards and suspends
DeleteListJob ==
    /\ queue # <<>>
    /\ Head(queue).pc = "deleteList"
    /\ LET f == Head(queue)
           written == SetDataTo(localStorage, "lists", f.data)
           cardsData == GetDataFrom(written, "cards", EmptyMap)
       IN  /\ localStorage' = written
           /\ queue' = Append(Tail(queue),
                  [pc |-> "setData", key |-> "cards",
                   data |-> DeleteListCardsData(cardsData, f.listId),
                   cont |-> Resume(f.cont, SetItemThrows)])
    /\ UNCHANGED <<ops, boards, lists, cards, loading, created, envVars, inflight, last>>

\* an async StorageService method returns after awaiting another one: its promise
\* resolves and the continuation of its caller is queued
ReturnJob ==
    /\ queue # <<>>
    /\ Head(queue).pc = "return"
    /\ queue' = Tail(queue) \o Resume(Head(queue).cont, Head(queue).threw)
    /\ UNCHANGED <<ops, boards, lists, cards, loading, localStorage, created, envVars,
                   inflight, last>>

DeleteListCommit ==
    /\ queue # <<>>
    /\ Head(queue).pc = "deleteListCommit"
    /\ LET f == Head(queue)
       IN  /\ lists' = Put(lists, f.boardId, FilterOut(OrEmpty(Get(lists, f.boardId)), f.id))
           /\ cards' = Put(cards, f.id, Undefined)
           /\ last' = [op |-> "deleteList", id |-> f.id, boardId |-> f.boardId,
                       failed |-> FALSE, threw |-> f.threw, pre |-> f.pre]
    /\ loading' = [loading EXCEPT !.saving = FALSE]
    /\ queue' = Tail(queue)
    /\ inflight' = inflight - 1
    /\ view' = ListsReplaced
    /\ UNCHANGED <<ops, boards, localStorage, created, storageMode, outages, clock, limit>>

DeleteBoard(id) ==
    /\ CanIssue
    /\ ops < MaxOps
    /\ ops' = ops + 1
    /\ queue' = Append(queue,
           [pc |-> "deleteBoard", boardId |-> id,
            data |-> FilterOut(GetData("boards", <<>>), id),
            cont |-> <<[pc |-> "return",
                        cont |-> <<[pc |-> "deleteBoardCommit", id |-> id,
                                    pre |-> Snapshot, threw |-> FALSE]>>,
                        threw |-> FALSE]>>])
    /\ loading' = StartSaving
    /\ inflight' = inflight + 1
    /\ last' = NoOp
    /\ UNCHANGED <<boards, lists, cards, localStorage, created, envVars>>

\* StorageService.deleteBoard after its await: it writes the boards and calls
\* deleteBoardData, which reads the lists and suspends
DeleteBoardJob ==
    /\ queue # <<>>
    /\ Head(queue).pc = "deleteBoard"
    /\ LET f == Head(queue)
           written == SetDataTo(localStorage, "boards", f.data)
       IN  /\ localStorage' = written
           /\ queue' = Append(Tail(queue),
                  [pc |-> "deleteBoardData1", boardId |-> f.boardId,
                   listsData |-> GetDataFrom(written, "lists", EmptyMap),
                   cont |-> Resume(f.cont, SetItemThrows)])
    /\ UNCHANGED <<ops, boards, lists, cards, loading, created, envVars, inflight, last>>

\* deleteBoardData after its first await: it reads the cards and suspends
DeleteBoardDataReadJob ==
    /\ queue # <<>>
    /\ Head(queue).pc = "deleteBoardData1"
    /\ LET f == Head(queue)
       IN  queue' = Append(Tail(queue),
                  [pc |-> "deleteBoardData2", boardId |-> f.boardId,
                   listsData |-> f.listsData,
                   cardsData |-> GetData("cards", EmptyMap), cont |-> f.cont])
    /\ UNCHANGED <<ops, boards, lists, cards, loading, localStorage, created, envVars,
                   inflight, last>>

\* the cards deleteBoardData writes: it deletes the board's key of listsData, then
\* reads the board's lists from listsData for the cards to delete
DeleteBoardCards(listsData, cardsData, boardId) ==
    LET remaining == Remove(listsData, boardId)
        boardLists == OrEmpty(Get(remaining, boardId))
    IN  [l \in (DOMAIN cardsData) \ {boardLists[i].id : i \in 1..Len(boardLists)}
            |-> cardsData[l]]

\* deleteBoardData after its second await: it writes the lists and the cards
DeleteBoardDataWriteJob ==
    /\ queue # <<>>
    /\ Head(queue).pc = "deleteBoardData2"
    /\ LET f == Head(queue)
       IN  /\ localStorage' =
                  SetDataTo(SetDataTo(localStorage, "lists", Remove(f.listsData, f.boardId)),
                            "cards", DeleteBoardCards(f.listsData, f.cardsData, f.boardId))
           /\ queue' = Tail(queue) \o Resume(f.cont, SetItemThrows)
    /\ UNCHANGED <<ops, boards, lists, cards, loading, created, envVars, inflight, last>>

DeleteBoardCommit ==
    /\ queue # <<>>
    /\ Head(queue).pc = "deleteBoardCommit"
    /\ LET f == Head(queue)
       IN  /\ boards' = FilterOut(boards, f.id)
           /\ lists' = Put(lists, f.id, Undefined)
           /\ last' = [op |-> "deleteBoard", id |-> f.id, failed |-> FALSE,
                       threw |-> f.threw, pre |-> f.pre]
    /\ loading' = [loading EXCEPT !.saving = FALSE]
    /\ queue' = Tail(queue)
    /\ inflight' = inflight - 1
    /\ view' = ListsReplaced
    /\ UNCHANGED <<ops, cards, localStorage, created, storageMode, outages, clock, limit>>

----------------------------------------------------------------------------
\* Store: reorderLists, reorderCards, moveCard

\* reorder(list, startIndex, endIndex) of utils: the element at startIndex is
\* removed and reinserted at endIndex, clamped to [0, length - 1]
Reorder(s, startIndex, endIndex) ==
    LET n == Len(s)
        to == IF endIndex < 0 THEN 0 ELSE IF endIndex > n - 1 THEN n - 1 ELSE endIndex
        removed == s[startIndex + 1]
        rest == SubSeq(s, 1, startIndex) \o SubSeq(s, startIndex + 2, n)
    IN  SubSeq(rest, 1, to) \o <<removed>> \o SubSeq(rest, to + 1, n - 1)

\* a reorder that removes the element and does not put it back
ReorderedDropping(s, startIndex, endIndex) ==
    Renumber(SubSeq(s, 1, startIndex) \o SubSeq(s, startIndex + 2, Len(s)))
\* the collection reorderLists and reorderCards persist and commit:
\* reorder(...).map((e, index) => ({ ...e, position: index }))
Reordered(s, startIndex, endIndex) == Renumber(Reorder(s, startIndex, endIndex))

\* what a reorder follows: the reorder of the same collection that completed just
\* before it was called, with the collection that one was called on
Preceding(op, key, before) ==
    IF last.op = op /\ last.key = key
    THEN [startIndex |-> last.startIndex, endIndex |-> last.endIndex, before |-> before]
    ELSE NoOp

ReorderLists(boardId, startIndex, endIndex) ==
    /\ CanIssue
    /\ ops < MaxOps
    /\ ops' = ops + 1
    /\ LET updatedLists ==
               Reordered(OrEmpty(Get(lists, boardId)), startIndex, endIndex)
       IN  queue' = Append(queue,
               [pc |-> "setData", key |-> "lists",
                data |-> Put(GetData("lists", EmptyMap), boardId, updatedLists),
                cont |-> <<[pc |-> "reorderLists", boardId |-> boardId,
                            startIndex |-> startIndex, endIndex |-> endIndex,
                            updatedLists |-> updatedLists,
                            origin |-> Preceding("reorderLists", boardId,
                                                 OrEmpty(Get(last.pre.lists, boardId))),
                            pre |-> Snapshot, threw |-> FALSE]>>])
    /\ inflight' = inflight + 1
    /\ last' = NoOp
    /\ UNCHANGED <<boards, lists, cards, loading, localStorage, created, envVars>>

ReorderListsCommit ==
    /\ queue # <<>>
    /\ Head(queue).pc = "reorderLists"
    /\ LET f == Head(queue)
       IN  /\ lists' = Put(lists, f.boardId, f.updatedLists)
           /\ last' = [op |-> "reorderLists", boardId |-> f.boardId, key |-> f.boardId,
                       startIndex |-> f.startIndex, endIndex |-> f.endIndex,
                       origin |-> f.origin,
                       failed |-> FALSE, threw |-> f.threw, pre |-> f.pre]
    /\ queue' = Tail(queue)
    /\ inflight' = inflight - 1
    /\ view' = ListsReplaced
    /\ UNCHANGED <<ops, boards, cards, loading, localStorage, created, storageMode, outages, clock, limit>>

ReorderCards(listId, startIndex, endIndex) ==
    /\ CanIssue
    /\ ops < MaxOps
    /\ ops' = ops + 1
    /\ LET updatedCards ==
               Reordered(OrEmpty(Get(cards, listId)), startIndex, endIndex)
       IN  queue' = Append(queue,
               [pc |-> "setData", key |-> "cards",
                data |-> Put(GetData("cards", EmptyMap), listId, updatedCards),
                cont |-> <<[pc |-> "reorderCards", listId |-> listId,
                            startIndex |-> startIndex, endIndex |-> endIndex,
                            updatedCards |-> updatedCards,
                            origin |-> Preceding("reorderCards", listId,
                                                 OrEmpty(Get(last.pre.cards, listId))),
                            pre |-> Snapshot, threw |-> FALSE]>>])
    /\ inflight' = inflight + 1
    /\ last' = NoOp
    /\ UNCHANGED <<boards, lists, cards, loading, localStorage, created, envVars>>

ReorderCardsCommit ==
    /\ queue # <<>>
    /\ Head(queue).pc = "reorderCards"
    /\ LET f == Head(queue)
       IN  /\ cards' = Put(cards, f.listId, f.updatedCards)
           /\ last' = [op |-> "reorderCards", listId |-> f.listId, key |-> f.listId,
                       startIndex |-> f.startIndex, endIndex |-> f.endIndex,
                       origin |-> f.origin, at |-> cards,
                       failed |-> FALSE, threw |-> f.threw, pre |-> f.pre]
    /\ queue' = Tail(queue)
    /\ inflight' = inflight - 1
    /\ UNCHANGED <<ops, boards, lists, loading, localStorage, created, envVars>>

\* sourceCards.find(c => c.id === cardId) finds a card
HasCard(s, cardId) == FindIndex(s, cardId) >= 0

\* the source collection moveCard commits and persists
MoveSource(sourceCards, cardId) == Renumber(FilterOut(sourceCards, cardId))

\* where moveCard puts the card in the copy of the destination
MoveInsert(destCards, destIndex, card) == Splice(destCards, destIndex, card)

\* the destination collection moveCard commits and persists
MoveDest(sourceCards, destCards, cardId, destListId, destIndex, now) ==
    LET cardToMove == sourceCards[FindIndex(sourceCards, cardId) + 1]
        updatedCard == [cardToMove EXCEPT !.listId = destListId, !.updatedAt = Date(now)]
    IN  Renumber(MoveInsert(destCards, destIndex, updatedCard))

\* moveCard when the card is in the source: both updateCardPositions calls of the
\* Promise.all run up to their await, so each has read the cards before either writes
MoveCard(cardId, sourceListId, destListId, destIndex) ==
    /\ CanIssue
    /\ ops < MaxOps
    /\ ops' = ops + 1
    /\ HasCard(OrEmpty(Get(cards, sourceListId)), cardId)
    /\ Len(OrEmpty(Get(cards, destListId))) < MaxLen
    /\ LET sourceCards == OrEmpty(Get(cards, sourceListId))
           destCards == OrEmpty(Get(cards, destListId))
           updatedSourceCards == MoveSource(sourceCards, cardId)
           updatedDestCards ==
               MoveDest(sourceCards, destCards, cardId, destListId, destIndex, clock)
           commit == [pc |-> "moveCard", cardId |-> cardId,
                      sourceListId |-> sourceListId, destListId |-> destListId,
                      destIndex |-> destIndex,
                      updatedSourceCards |-> updatedSourceCards,
                      updatedDestCards |-> updatedDestCards,
                      pre |-> Snapshot, threw |-> FALSE]
       IN  queue' = queue \o
               <<[pc |-> "setData", key |-> "cards",
                  data |-> Put(GetData("cards", EmptyMap), sourceListId, updatedSourceCards),
                  cont |-> <<[pc |-> "allElement", cont |-> <<>>, threw |-> FALSE]>>],
                 [pc |-> "setData", key |-> "cards",
                  data |-> Put(GetData("cards", EmptyMap), destListId, updatedDestCards),
                  cont |-> <<[pc |-> "allElement", cont |-> <<commit>>, threw |-> FALSE]>>]>>
    /\ inflight' = inflight + 1
    /\ last' = NoOp
    /\ UNCHANGED <<boards, lists, cards, loading, localStorage, created, envVars>>

\* moveCard when the card is not in the source: it throws before any await and
\* its catch sets the error
MoveCardNotFound(cardId, sourceListId, destListId, destIndex) ==
    /\ CanIssue
    /\ ops < MaxOps
    /\ ops' = ops + 1
    /\ ~HasCard(OrEmpty(Get(cards, sourceListId)), cardId)
    /\ loading' = SetError("Card not found")
    /\ last' = [op |-> "moveCard", cardId |-> cardId, sourceListId |-> sourceListId,
                destListId |-> destListId, destIndex |-> destIndex,
                failed |-> TRUE, threw |-> FALSE, pre |-> Snapshot]
    /\ UNCHANGED <<boards, lists, cards, localStorage, queue, created, envVars, inflight>>

\* Promise.all's reaction to one of its promises: after the last one, the
\* continuation of moveCard is queued
AllElementJob ==
    /\ queue # <<>>
    /\ Head(queue).pc = "allElement"
    /\ queue' = Tail(queue) \o Resume(Head(queue).cont, Head(queue).threw)
    /\ UNCHANGED <<ops, boards, lists, cards, loading, localStorage, created, envVars,
                   inflight, last>>

\* a commit that replaces the source collection only
MoveCommittedSourceOnly(current, f) == Put(current, f.sourceListId, f.updatedSourceCards)
\* the cards after moveCard's set: the source and the destination are replaced in
\* one object, { ...state.cards, [sourceListId]: ..., [destListId]: ... }
MoveCommitted(current, f) ==
    Put(Put(current, f.sourceListId, f.updatedSourceCards),
        f.destListId, f.updatedDestCards)

MoveCardCommit ==
    /\ queue # <<>>
    /\ Head(queue).pc = "moveCard"
    /\ LET f == Head(queue)
       IN  /\ cards' = MoveCommitted(cards, f)
           /\ last' = [op |-> "moveCard", cardId |-> f.cardId,
                       sourceListId |-> f.sourceListId, destListId |-> f.destListId,
                       destIndex |-> f.destIndex, at |-> cards,
                       failed |-> FALSE, threw |-> f.threw, pre |-> f.pre]
    /\ queue' = Tail(queue)
    /\ inflight' = inflight - 1
    /\ UNCHANGED <<ops, boards, lists, loading, localStorage, created, envVars>>

----------------------------------------------------------------------------
\* Store: updateCard

\* { ...card, ...data }
Merge(entity, data) ==
    [f \in DOMAIN entity |-> IF f \in DOMAIN data THEN data[f] ELSE entity[f]]

\* the lists whose collection holds the card: Object.entries(state.cards).forEach
\* keeps the last one it finds, in the order the keys were inserted
ListsHolding(id) == {l \in DOMAIN cards : cards[l] # Undefined /\ HasCard(cards[l], id)}

\* a key of state.cards holds undefined: cards.find throws a TypeError
FindThrows == \E l \in DOMAIN cards : cards[l] = Undefined
TypeErrorMessage == "Cannot read properties of undefined"

\* updateCard when the card is found: it merges the data into the card it read
\* and calls saveCard, which reads the cards and suspends
UpdateCard(id, data) ==
    /\ CanIssue
    /\ ops < MaxOps
    /\ ops' = ops + 1
    /\ ~FindThrows
    /\ \E listId \in ListsHolding(id) :
          LET card == cards[listId][FindIndex(cards[listId], id) + 1]
              updatedCard == [Merge(card, data) EXCEPT !.updatedAt = Date(clock)]
          IN  queue' = Append(queue,
                  [pc |-> "setData", key |-> "cards", data |-> SaveCardData(updatedCard),
                   cont |-> <<[pc |-> "updateCard", id |-> id, listId |-> listId,
                               updatedCard |-> updatedCard,
                               overlaps |-> \E k \in 1..Len(queue) :
                                               /\ queue[k].pc = "setData"
                                               /\ queue[k].cont[1].pc = "updateCard"
                                               /\ queue[k].cont[1].id = id,
                               pre |-> Snapshot, threw |-> FALSE]>>])
    /\ loading' = StartSaving
    /\ inflight' = inflight + 1
    /\ last' = NoOp
    /\ UNCHANGED <<boards, lists, cards, localStorage, created, envVars>>

\* updateCard when no collection holds the card, or when a key holds undefined:
\* it throws before any await and its catch sets the error
UpdateCardFails(id, data) ==
    /\ CanIssue
    /\ ops < MaxOps
    /\ ops' = ops + 1
    /\ FindThrows \/ ListsHolding(id) = {}
    /\ loading' = [loading EXCEPT !.saving = FALSE,
                                  !.error = IF FindThrows THEN TypeErrorMessage
                                            ELSE "Card not found"]
    /\ last' = [op |-> "updateCard", id |-> id, failed |-> TRUE, threw |-> FALSE,
                overlaps |-> FALSE, pre |-> Snapshot]
    /\ UNCHANGED <<boards, lists, cards, localStorage, queue, created, envVars, inflight>>

\* updateCard after its await: the card of that id in the list is replaced; when
\* the key holds undefined by now, map throws and the catch sets the error
UpdateCardCommit ==
    /\ queue # <<>>
    /\ Head(queue).pc = "updateCard"
    /\ LET f == Head(queue)
           gone == Get(cards, f.listId) = Undefined
       IN  /\ cards' = IF gone THEN cards
                       ELSE Put(cards, f.listId, ReplaceById(cards[f.listId], f.id, f.updatedCard))
           /\ loading' = IF gone
                         THEN [loading EXCEPT !.saving = FALSE, !.error = TypeErrorMessage]
                         ELSE [loading EXCEPT !.saving = FALSE]
           /\ last' = [op |-> "updateCard", id |-> f.id, listId |-> f.listId,
                       updatedCard |-> f.updatedCard, failed |-> gone, threw |-> f.threw,
                       overlaps |-> f.overlaps, pre |-> f.pre]
    /\ queue' = Tail(queue)
    /\ inflight' = inflight - 1
    /\ UNCHANGED <<ops, boards, lists, localStorage, created, envVars>>

----------------------------------------------------------------------------
\* Store: updateBoard, updateList

\* updateBoard when state.boards.find finds the board: it merges the data into it,
\* refreshes updatedAt and calls saveBoard, which reads the boards and suspends
UpdateBoard(id, data) ==
    /\ CanIssue
    /\ ops < MaxOps
    /\ ops' = ops + 1
    /\ FindIndex(boards, id) >= 0
    /\ LET existingBoard == boards[FindIndex(boards, id) + 1]
           updatedBoard == [Merge(existingBoard, data) EXCEPT !.updatedAt = Date(clock)]
       IN  queue' = Append(queue,
               [pc |-> "setData", key |-> "boards", data |-> SaveBoardData(updatedBoard),
                cont |-> <<[pc |-> "updateBoard", id |-> id, updatedBoard |-> updatedBoard,
                            pre |-> Snapshot, threw |-> FALSE]>>])
    /\ loading' = StartSaving
    /\ inflight' = inflight + 1
    /\ last' = NoOp
    /\ UNCHANGED <<boards, lists, cards, localStorage, created, envVars>>

\* updateBoard when no board has the id: it throws before any await and its catch
\* sets the error and clears the saving flag
UpdateBoardFails(id, data) ==
    /\ CanIssue
    /\ ops < MaxOps
    /\ ops' = ops + 1
    /\ FindIndex(boards, id) < 0
    /\ loading' = [loading EXCEPT !.saving = FALSE, !.error = "Board not found"]
    /\ last' = [op |-> "updateBoard", id |-> id, failed |-> TRUE, threw |-> FALSE,
                pre |-> Snapshot]
    /\ UNCHANGED <<boards, lists, cards, localStorage, queue, created, envVars, inflight>>

UpdateBoardCommit ==
    /\ queue # <<>>
    /\ Head(queue).pc = "updateBoard"
    /\ LET f == Head(queue)
       IN  /\ boards' = ReplaceById(boards, f.id, f.updatedBoard)
           /\ last' = [op |-> "updateBoard", id |-> f.id, updatedBoard |-> f.updatedBoard,
                       failed |-> FALSE, threw |-> f.threw, pre |-> f.pre]
    /\ loading' = [loading EXCEPT !.saving = FALSE]
    /\ queue' = Tail(queue)
    /\ inflight' = inflight - 1
    /\ UNCHANGED <<ops, lists, cards, localStorage, created, envVars>>

\* the boards whose collection holds the list: Object.entries(state.lists).forEach
\* keeps the last one it finds
BoardsHolding(id) ==
    {b \in DOMAIN lists : lists[b] # Undefined /\ FindIndex(lists[b], id) >= 0}
\* a key of state.lists holds undefined: lists.find throws a TypeError
ListFindThrows == \E b \in DOMAIN lists : lists[b] = Undefined

\* updateList when the list is found: it merges the data into the list it read
\* and calls saveList, which reads the lists and suspends
UpdateList(id, data) ==
    /\ CanIssue
    /\ ops < MaxOps
    /\ ops' = ops + 1
    /\ ~ListFindThrows
    /\ \E boardId \in BoardsHolding(id) :
          LET list == lists[boardId][FindIndex(lists[boardId], id) + 1]
              updatedList == Merge(list, data)
          IN  queue' = Append(queue,
                  [pc |-> "setData", key |-> "lists", data |-> SaveListData(updatedList),
                   cont |-> <<[pc |-> "updateList", id |-> id, boardId |-> boardId,
                               updatedList |-> updatedList,
                               pre |-> Snapshot, threw |-> FALSE]>>])
    /\ loading' = StartSaving
    /\ inflight' = inflight + 1
    /\ last' = NoOp
    /\ UNCHANGED <<boards, lists, cards, localStorage, created, envVars>>

\* updateList when no collection holds the list, or when a key holds undefined:
\* it throws before any await and its catch sets the error
UpdateListFails(id, data) ==
    /\ CanIssue
    /\ ops < MaxOps
    /\ ops' = ops + 1
    /\ ListFindThrows \/ BoardsHolding(id) = {}
    /\ loading' = [loading EXCEPT !.saving = FALSE,
                                  !.error = IF ListFindThrows THEN TypeErrorMessage
                                            ELSE "List not found"]
    /\ last' = [op |-> "updateList", id |-> id, failed |-> TRUE, threw |-> FALSE,
                pre |-> Snapshot]
    /\ UNCHANGED <<boards, lists, cards, localStorage, queue, created, envVars, inflight>>

\* updateList after its await: the list of that id in the board is replaced; when
\* the key holds undefined by now, map throws and the catch sets the error
UpdateListCommit ==
    /\ queue # <<>>
    /\ Head(queue).pc = "updateList"
    /\ LET f == Head(queue)
           gone == Get(lists, f.boardId) = Undefined
       IN  /\ lists' = IF gone THEN lists
                       ELSE Put(lists, f.boardId, ReplaceById(lists[f.boardId], f.id, f.updatedList))
           /\ loading' = IF gone
                         THEN [loading EXCEPT !.saving = FALSE, !.error = TypeErrorMessage]
                         ELSE [loading EXCEPT !.saving = FALSE]
           /\ last' = [op |-> "updateList", id |-> f.id, boardId |-> f.boardId,
                       updatedList |-> f.updatedList, failed |-> gone, threw |-> f.threw,
                       pre |-> f.pre]
    /\ queue' = Tail(queue)
    /\ inflight' = inflight - 1
    /\ view' = IF Get(lists, Head(queue).boardId) = Undefined THEN view ELSE ListsReplaced
    /\ UNCHANGED <<ops, boards, cards, localStorage, created, storageMode, outages, clock, limit>>

\* the changes an edit of a board or of a list asks for
UpdateBoardDatas == {[title |-> "B"]}
UpdateListDatas == {[title |-> "B"]}

\* the changes an edit of a card asks for
UpdateCardDatas == {[title |-> "B"], [title |-> "C"]}
\* every id generateId has returned
IdsGenerated == 1..(created.boards + created.lists + created.cards)

\* the indices a drag can name in a collection of n elements
DragIndices(n) == 0..(n - 1)
\* the destination indices a drag can name: -1 when the card dropped on was not found
DestIndices(n) == (-1)..(n + 1)

----------------------------------------------------------------------------
\* Store: loadBoards, loadLists, loadCards

\* a load that adds what it read to what memory holds
LoadedBoardsAppended(current, read) == current \o read
\* the boards after set({ boards, ... }): the ones read replace the ones in memory
LoadedBoards(current, read) == read

LoadBoards ==
    /\ CanIssue
    /\ ops < MaxOps
    /\ ops' = ops + 1
    /\ queue' = Append(queue,
           [pc |-> "loadBoards", boards |-> GetData("boards", <<>>),
            readFailed |-> ~IsStorageAvailable,
            origin |-> IF last.op = "loadBoards"
                       THEN [after |-> boards, readFailed |-> last.readFailed]
                       ELSE NoOp,
            pre |-> Snapshot, threw |-> FALSE, then |-> <<>>])
    /\ loading' = [loading EXCEPT !.boards = TRUE, !.error = Null]
    /\ inflight' = inflight + 1
    /\ last' = NoOp
    /\ UNCHANGED <<boards, lists, cards, localStorage, created, envVars>>

LoadBoardsCommit ==
    /\ queue # <<>>
    /\ Head(queue).pc = "loadBoards"
    /\ boards' = LoadedBoards(boards, Head(queue).boards)
    /\ loading' = [loading EXCEPT !.boards = FALSE]
    /\ last' = [op |-> "loadBoards", failed |-> FALSE, threw |-> FALSE,
                readFailed |-> Head(queue).readFailed, origin |-> Head(queue).origin,
                pre |-> Head(queue).pre]
    /\ queue' = Tail(queue) \o Head(queue).then
    /\ inflight' = inflight - 1
    /\ UNCHANGED <<ops, lists, cards, localStorage, created, envVars>>

LoadLists(boardId) ==
    /\ CanIssue
    /\ ops < MaxOps
    /\ ops' = ops + 1
    /\ queue' = Append(queue,
           [pc |-> "loadLists", boardId |-> boardId,
            boardLists |-> OrEmpty(Get(GetData("lists", EmptyMap), boardId)),
            readFailed |-> ~IsStorageAvailable, pre |-> Snapshot, threw |-> FALSE, then |-> <<>>])
    /\ inflight' = inflight + 1
    /\ last' = NoOp
    /\ UNCHANGED <<boards, lists, cards, loading, localStorage, created, envVars>>

LoadListsCommit ==
    /\ queue # <<>>
    /\ Head(queue).pc = "loadLists"
    /\ lists' = Put(lists, Head(queue).boardId, Head(queue).boardLists)
    /\ last' = [op |-> "loadLists", boardId |-> Head(queue).boardId, failed |-> FALSE,
                threw |-> FALSE, readFailed |-> Head(queue).readFailed,
                pre |-> Head(queue).pre]
    /\ queue' = Tail(queue) \o Head(queue).then
    /\ inflight' = inflight - 1
    /\ view' = ListsReplaced
    /\ UNCHANGED <<ops, boards, cards, loading, localStorage, created, storageMode, outages, clock, limit>>

LoadCards(listId) ==
    /\ CanIssue
    /\ ops < MaxOps
    /\ ops' = ops + 1
    /\ queue' = Append(queue,
           [pc |-> "loadCards", listId |-> listId,
            listCards |-> OrEmpty(Get(GetData("cards", EmptyMap), listId)),
            readFailed |-> ~IsStorageAvailable, pre |-> Snapshot, threw |-> FALSE])
    /\ inflight' = inflight + 1
    /\ last' = NoOp
    /\ UNCHANGED <<boards, lists, cards, loading, localStorage, created, envVars>>

LoadCardsCommit ==
    /\ queue # <<>>
    /\ Head(queue).pc = "loadCards"
    /\ cards' = Put(cards, Head(queue).listId, Head(queue).listCards)
    /\ last' = [op |-> "loadCards", listId |-> Head(queue).listId, failed |-> FALSE,
                threw |-> FALSE, readFailed |-> Head(queue).readFailed,
                pre |-> Head(queue).pre]
    /\ queue' = Tail(queue)
    /\ inflight' = inflight - 1
    /\ UNCHANGED <<ops, boards, lists, loading, localStorage, created, envVars>>

----------------------------------------------------------------------------
Next ==
    \/ SetDataJob
    \/ \E t \in Titles : CreateBoard(t)
    \/ CreateBoardCommit
    \/ \E b \in BoardIdsShown, t \in Titles : CreateList(b, t)
    \/ CreateListCommit
    \/ \E l \in ListIdsShown, t \in Titles : CreateCard(l, t)
    \/ CreateCardCommit
    \/ \E l \in ListIdsShown, c \in CardIdsShown : DeleteCard(c, l)
    \/ DeleteCardCommit
    \/ \E b \in BoardIdsShown, l \in ListIdsShown : DeleteList(l, b)
    \/ DeleteListJob
    \/ ReturnJob
    \/ DeleteListCommit
    \/ \E b \in BoardIdsShown : DeleteBoard(b)
    \/ DeleteBoardJob
    \/ DeleteBoardDataReadJob
    \/ DeleteBoardDataWriteJob
    \/ DeleteBoardCommit
    \/ \E b \in BoardIdsShown :
          \E i, j \in DragIndices(Len(OrEmpty(Get(lists, b)))) : ReorderLists(b, i, j)
    \/ ReorderListsCommit
    \/ \E l \in ListIdsShown :
          \E i, j \in DragIndices(Len(OrEmpty(Get(cards, l)))) : ReorderCards(l, i, j)
    \/ ReorderCardsCommit
    \/ \E c \in CardIdsShown, l1 \in ListIdsShown, l2 \in ListIdsShown :
          \E i \in DestIndices(Len(OrEmpty(Get(cards, l2)))) : MoveCard(c, l1, l2, i)
    \/ \E c \in CardIdsShown, l1 \in ListIdsShown, l2 \in ListIdsShown :
          \E i \in DestIndices(Len(OrEmpty(Get(cards, l2)))) : MoveCardNotFound(c, l1, l2, i)
    \/ AllElementJob
    \/ MoveCardCommit
    \/ LoadBoards
    \/ LoadBoardsCommit
    \/ \E b \in BoardIdsShown : LoadLists(b)
    \/ LoadListsCommit
    \/ \E l \in ListIdsShown : LoadCards(l)
    \/ LoadCardsCommit

\* the state after createBoard, createList twice and createCard twice on the first
\* list, each run to completion with a usable backing store
InitPopulated ==
    LET board == [id |-> 1, title |-> "A", createdAt |-> Date(0), updatedAt |-> Date(0)]
        list(id) == [id |-> id, title |-> "A", boardId |-> 1, position |-> id - 2,
                     createdAt |-> Date(0)]
        card(id) == [id |-> id, title |-> "A", listId |-> 2, position |-> id - 4,
                     createdAt |-> Date(0), updatedAt |-> Date(0)]
    IN  /\ boards = <<board>>
        /\ lists = (1 :> <<list(2), list(3)>>)
        /\ cards = (2 :> <<card(4), card(5)>>)
        /\ loading = [boards |-> FALSE, saving |-> FALSE, error |-> Null]
        /\ localStorage = [boards |-> JsonArray(<<board>>),
                           lists |-> JsonRecord(1 :> <<list(2), list(3)>>),
                           cards |-> JsonRecord(2 :> <<card(4), card(5)>>)]
        /\ storageMode = "ok"
        /\ queue = <<>>
        /\ created = [boards |-> 1, lists |-> 2, cards |-> 2]
        /\ outages = 0
        /\ ops = 0
        /\ clock = 0
        /\ inflight = 0
        /\ limit = 1
        /\ last = NoOp
        /\ view = NoView

\* the operations on a populated board, with a backing store that can stop
\* accepting writes
NextFaulty ==
    \/ SetStorageMode
    \/ SetDataJob
    \/ \E l \in ListIdsShown, t \in Titles : CreateCard(l, t)
    \/ CreateCardCommit
    \/ \E l \in ListIdsShown, c \in CardIdsShown : DeleteCard(c, l)
    \/ DeleteCardCommit
    \/ \E b \in BoardIdsShown, l \in ListIdsShown : DeleteList(l, b)
    \/ DeleteListJob
    \/ ReturnJob
    \/ DeleteListCommit
    \/ \E b \in BoardIdsShown : DeleteBoard(b)
    \/ DeleteBoardJob
    \/ DeleteBoardDataReadJob
    \/ DeleteBoardDataWriteJob
    \/ DeleteBoardCommit
    \/ \E b \in BoardIdsShown :
          \E i, j \in DragIndices(Len(OrEmpty(Get(lists, b)))) : ReorderLists(b, i, j)
    \/ ReorderListsCommit
    \/ \E l \in ListIdsShown :
          \E i, j \in DragIndices(Len(OrEmpty(Get(cards, l)))) : ReorderCards(l, i, j)
    \/ ReorderCardsCommit
    \/ \E c \in CardIdsShown, l1 \in ListIdsShown, l2 \in ListIdsShown :
          \E i \in DestIndices(Len(OrEmpty(Get(cards, l2)))) : MoveCard(c, l1, l2, i)
    \/ \E c \in CardIdsShown, l1 \in ListIdsShown, l2 \in ListIdsShown :
          \E i \in DestIndices(Len(OrEmpty(Get(cards, l2)))) : MoveCardNotFound(c, l1, l2, i)
    \/ AllElementJob
    \/ MoveCardCommit
    \/ LoadBoards
    \/ LoadBoardsCommit
    \/ \E b \in BoardIdsShown : LoadLists(b)
    \/ LoadListsCommit
    \/ \E l \in ListIdsShown : LoadCards(l)
    \/ LoadCardsCommit

\* the card operations of a session, each run to completion
NextCards ==
    \/ SetDataJob
    \/ \E t \in Titles : CreateBoard(t)
    \/ CreateBoardCommit
    \/ \E b \in BoardIdsShown, t \in Titles : CreateList(b, t)
    \/ CreateListCommit
    \/ \E l \in ListIdsShown, t \in Titles : CreateCard(l, t)
    \/ CreateCardCommit
    \/ \E l \in ListIdsShown, c \in CardIdsShown : DeleteCard(c, l)
    \/ DeleteCardCommit
    \/ \E l \in ListIdsShown :
          \E i, j \in DragIndices(Len(OrEmpty(Get(cards, l)))) : ReorderCards(l, i, j)
    \/ ReorderCardsCommit
    \/ \E c \in CardIdsShown, l1 \in ListIdsShown, l2 \in ListIdsShown :
          \E i \in DestIndices(Len(OrEmpty(Get(cards, l2)))) : MoveCard(c, l1, l2, i)
    \/ \E c \in CardIdsShown, l1 \in ListIdsShown, l2 \in ListIdsShown :
          \E i \in DestIndices(Len(OrEmpty(Get(cards, l2)))) : MoveCardNotFound(c, l1, l2, i)
    \/ AllElementJob
    \/ MoveCardCommit

\* the list operations of a session, each run to completion
NextLists ==
    \/ SetDataJob
    \/ \E t \in Titles : CreateBoard(t)
    \/ CreateBoardCommit
    \/ \E b \in BoardIdsShown, t \in Titles : CreateList(b, t)
    \/ CreateListCommit
    \/ \E b \in BoardIdsShown, l \in ListIdsShown : DeleteList(l, b)
    \/ DeleteListJob
    \/ ReturnJob
    \/ DeleteListCommit
    \/ \E b \in BoardIdsShown :
          \E i, j \in DragIndices(Len(OrEmpty(Get(lists, b)))) : ReorderLists(b, i, j)
    \/ ReorderListsCommit

\* the state after createBoard, createList, createCard three times and deleteCard
\* of the first card, each run to completion with a usable backing store
InitAfterDelete ==
    LET board == [id |-> 1, title |-> "A", createdAt |-> Date(0), updatedAt |-> Date(0)]
        list == [id |-> 2, title |-> "A", boardId |-> 1, position |-> 0,
                 createdAt |-> Date(0)]
        card(id) == [id |-> id, title |-> "A", listId |-> 2, position |-> id - 3,
                     createdAt |-> Date(0), updatedAt |-> Date(0)]
    IN  /\ boards = <<board>>
        /\ lists = (1 :> <<list>>)
        /\ cards = (2 :> <<card(4), card(5)>>)
        /\ loading = [boards |-> FALSE, saving |-> FALSE, error |-> Null]
        /\ localStorage = [boards |-> JsonArray(<<board>>),
                           lists |-> JsonRecord(1 :> <<list>>),
                           cards |-> JsonRecord(2 :> <<card(4), card(5)>>)]
        /\ storageMode = "ok"
        /\ queue = <<>>
        /\ created = [boards |-> 1, lists |-> 1, cards |-> 3]
        /\ outages = 0
        /\ ops = 0
        /\ clock = 0
        /\ inflight = 0
        /\ limit = 1
        /\ last = NoOp
        /\ view = NoView

\* what a user does with the cards and lists of a board after a card was deleted
NextAfterDelete ==
    \/ SetDataJob
    \/ \E l \in ListIdsShown, c \in CardIdsShown : DeleteCard(c, l)
    \/ DeleteCardCommit
    \/ \E b \in BoardIdsShown :
          \E i, j \in DragIndices(Len(OrEmpty(Get(lists, b)))) : ReorderLists(b, i, j)
    \/ ReorderListsCommit
    \/ \E l \in ListIdsShown :
          \E i, j \in DragIndices(Len(OrEmpty(Get(cards, l)))) : ReorderCards(l, i, j)
    \/ ReorderCardsCommit

\* the populated board, with a caller that issues up to two operations before
\* it awaits one
InitConcurrent ==
    LET board == [id |-> 1, title |-> "A", createdAt |-> Date(0), updatedAt |-> Date(0)]
        list(id) == [id |-> id, title |-> "A", boardId |-> 1, position |-> id - 2,
                     createdAt |-> Date(0)]
        card(id) == [id |-> id, title |-> "A", listId |-> 2, position |-> id - 4,
                     createdAt |-> Date(0), updatedAt |-> Date(0)]
    IN  /\ boards = <<board>>
        /\ lists = (1 :> <<list(2), list(3)>>)
        /\ cards = (2 :> <<card(4), card(5)>>)
        /\ loading = [boards |-> FALSE, saving |-> FALSE, error |-> Null]
        /\ localStorage = [boards |-> JsonArray(<<board>>),
                           lists |-> JsonRecord(1 :> <<list(2), list(3)>>),
                           cards |-> JsonRecord(2 :> <<card(4), card(5)>>)]
        /\ storageMode = "ok"
        /\ queue = <<>>
        /\ created = [boards |-> 1, lists |-> 2, cards |-> 2]
        /\ outages = 0
        /\ ops = 0
        /\ clock = 0
        /\ inflight = 0
        /\ limit = MaxInFlight
        /\ last = NoOp
        /\ view = NoView

\* the card operations of a board view whose caller does not await each one;
\* the view moves a card only between different lists
NextConcurrent ==
    \/ SetDataJob
    \/ \E l \in ListIdsShown, t \in Titles : CreateCard(l, t)
    \/ CreateCardCommit
    \/ \E l \in ListIdsShown, c \in CardIdsShown : DeleteCard(c, l)
    \/ DeleteCardCommit
    \/ \E l \in ListIdsShown :
          \E i, j \in DragIndices(Len(OrEmpty(Get(cards, l)))) : ReorderCards(l, i, j)
    \/ ReorderCardsCommit
    \/ \E c \in CardIdsShown, l1 \in ListIdsShown : \E l2 \in ListIdsShown \ {l1} :
          \E i \in DestIndices(Len(OrEmpty(Get(cards, l2)))) : MoveCard(c, l1, l2, i)
    \/ \E c \in CardIdsShown, l1 \in ListIdsShown : \E l2 \in ListIdsShown \ {l1} :
          \E i \in DestIndices(Len(OrEmpty(Get(cards, l2)))) : MoveCardNotFound(c, l1, l2, i)
    \/ AllElementJob
    \/ MoveCardCommit
    \/ \E c \in IdsGenerated, d \in UpdateCardDatas : UpdateCard(c, d)
    \/ \E c \in IdsGenerated, d \in UpdateCardDatas : UpdateCardFails(c, d)
    \/ UpdateCardCommit

\* a board with three lists, two cards in the first, and a caller that issues up
\* to two operations before it awaits one
InitMoves ==
    LET board == [id |-> 1, title |-> "A", createdAt |-> Date(0), updatedAt |-> Date(0)]
        list(id) == [id |-> id, title |-> "A", boardId |-> 1, position |-> id - 2,
                     createdAt |-> Date(0)]
        card(id) == [id |-> id, title |-> "A", listId |-> 2, position |-> id - 5,
                     createdAt |-> Date(0), updatedAt |-> Date(0)]
    IN  /\ boards = <<board>>
        /\ lists = (1 :> <<list(2), list(3), list(4)>>)
        /\ cards = (2 :> <<card(5), card(6)>>)
        /\ loading = [boards |-> FALSE, saving |-> FALSE, error |-> Null]
        /\ localStorage = [boards |-> JsonArray(<<board>>),
                           lists |-> JsonRecord(1 :> <<list(2), list(3), list(4)>>),
                           cards |-> JsonRecord(2 :> <<card(5), card(6)>>)]
        /\ storageMode = "ok"
        /\ queue = <<>>
        /\ created = [boards |-> 1, lists |-> 3, cards |-> 2]
        /\ outages = 0
        /\ ops = 0
        /\ clock = 0
        /\ inflight = 0
        /\ limit = MaxInFlight
        /\ last = NoOp
        /\ view = NoView

\* cards dragged between the lists of a board by a caller that does not await
\* each move
NextMoves ==
    \/ SetDataJob
    \/ \E c \in CardIdsShown, l1 \in ListIdsShown : \E l2 \in ListIdsShown \ {l1} :
          \E i \in DestIndices(Len(OrEmpty(Get(cards, l2)))) : MoveCard(c, l1, l2, i)
    \/ \E c \in CardIdsShown, l1 \in ListIdsShown : \E l2 \in ListIdsShown \ {l1} :
          \E i \in DestIndices(Len(OrEmpty(Get(cards, l2)))) : MoveCardNotFound(c, l1, l2, i)
    \/ AllElementJob
    \/ MoveCardCommit

\* a session on the populated board in which entities are edited as well, each
\* operation run to completion, while time passes
NextEdits ==
    \/ AdvanceClock
    \/ SetDataJob
    \/ \E l \in ListIdsShown, t \in Titles : CreateCard(l, t)
    \/ CreateCardCommit
    \/ \E b \in IdsGenerated, d \in UpdateBoardDatas : UpdateBoard(b, d)
    \/ \E b \in IdsGenerated, d \in UpdateBoardDatas : UpdateBoardFails(b, d)
    \/ UpdateBoardCommit
    \/ \E l \in IdsGenerated, d \in UpdateListDatas : UpdateList(l, d)
    \/ \E l \in IdsGenerated, d \in UpdateListDatas : UpdateListFails(l, d)
    \/ UpdateListCommit
    \/ \E c \in IdsGenerated, d \in UpdateCardDatas : UpdateCard(c, d)
    \/ \E c \in IdsGenerated, d \in UpdateCardDatas : UpdateCardFails(c, d)
    \/ UpdateCardCommit
    \/ \E l \in ListIdsShown, c \in CardIdsShown : DeleteCard(c, l)
    \/ DeleteCardCommit
    \/ \E b \in BoardIdsShown, l \in ListIdsShown : DeleteList(l, b)
    \/ DeleteListJob
    \/ ReturnJob
    \/ DeleteListCommit
    \/ \E b \in BoardIdsShown : DeleteBoard(b)
    \/ DeleteBoardJob
    \/ DeleteBoardDataReadJob
    \/ DeleteBoardDataWriteJob
    \/ DeleteBoardCommit
    \/ \E b \in BoardIdsShown :
          \E i, j \in DragIndices(Len(OrEmpty(Get(lists, b)))) : ReorderLists(b, i, j)
    \/ ReorderListsCommit
    \/ \E l \in ListIdsShown :
          \E i, j \in DragIndices(Len(OrEmpty(Get(cards, l)))) : ReorderCards(l, i, j)
    \/ ReorderCardsCommit
    \/ \E c \in CardIdsShown, l1 \in ListIdsShown : \E l2 \in ListIdsShown \ {l1} :
          \E i \in DestIndices(Len(OrEmpty(Get(cards, l2)))) : MoveCard(c, l1, l2, i)
    \/ \E c \in CardIdsShown, l1 \in ListIdsShown : \E l2 \in ListIdsShown \ {l1} :
          \E i \in DestIndices(Len(OrEmpty(Get(cards, l2)))) : MoveCardNotFound(c, l1, l2, i)
    \/ AllElementJob
    \/ MoveCardCommit
    \/ LoadBoards
    \/ LoadBoardsCommit
    \/ \E b \in BoardIdsShown : LoadLists(b)
    \/ LoadListsCommit
    \/ \E l \in ListIdsShown : LoadCards(l)
    \/ LoadCardsCommit

\* a board with one empty list, and a caller that issues up to two operations
\* before it awaits one
InitCreates ==
    LET board == [id |-> 1, title |-> "A", createdAt |-> Date(0), updatedAt |-> Date(0)]
        list == [id |-> 2, title |-> "A", boardId |-> 1, position |-> 0,
                 createdAt |-> Date(0)]
    IN  /\ boards = <<board>>
        /\ lists = (1 :> <<list>>)
        /\ cards = EmptyMap
        /\ loading = [boards |-> FALSE, saving |-> FALSE, error |-> Null]
        /\ localStorage = [boards |-> JsonArray(<<board>>),
                           lists |-> JsonRecord(1 :> <<list>>)]
        /\ storageMode = "ok"
        /\ queue = <<>>
        /\ created = [boards |-> 1, lists |-> 1, cards |-> 0]
        /\ outages = 0
        /\ ops = 0
        /\ clock = 0
        /\ inflight = 0
        /\ limit = MaxInFlight
        /\ last = NoOp
        /\ view = NoView

\* lists and cards added to a board by a caller that does not await each creation
NextCreates ==
    \/ SetDataJob
    \/ \E b \in BoardIdsShown, t \in Titles : CreateList(b, t)
    \/ CreateListCommit
    \/ \E l \in ListIdsShown, t \in Titles : CreateCard(l, t)
    \/ CreateCardCommit

\* two boards, the first with two lists and the second with one, a card in each
\* list: the state after createBoard twice, createList three times and createCard
\* three times, each run to completion
InitTwoBoards ==
    LET board(id) == [id |-> id, title |-> "A", createdAt |-> Date(0), updatedAt |-> Date(0)]
        list(id, boardId, position) ==
            [id |-> id, title |-> "A", boardId |-> boardId, position |-> position,
             createdAt |-> Date(0)]
        card(id, listId) ==
            [id |-> id, title |-> "A", listId |-> listId, position |-> 0,
             createdAt |-> Date(0), updatedAt |-> Date(0)]
        allLists == (1 :> <<list(3, 1, 0), list(4, 1, 1)>>) @@ (2 :> <<list(5, 2, 0)>>)
        allCards == (3 :> <<card(6, 3)>>) @@ (4 :> <<card(7, 4)>>) @@ (5 :> <<card(8, 5)>>)
    IN  /\ boards = <<board(1), board(2)>>
        /\ lists = allLists
        /\ cards = allCards
        /\ loading = [boards |-> FALSE, saving |-> FALSE, error |-> Null]
        /\ localStorage = [boards |-> JsonArray(<<board(1), board(2)>>),
                           lists |-> JsonRecord(allLists),
                           cards |-> JsonRecord(allCards)]
        /\ storageMode = "ok"
        /\ queue = <<>>
        /\ created = [boards |-> 2, lists |-> 3, cards |-> 3]
        /\ outages = 0
        /\ ops = 0
        /\ clock = 0
        /\ inflight = 0
        /\ limit = 1
        /\ last = NoOp
        /\ view = NoView

\* lists and cards deleted from the boards, each operation run to completion
NextTwoBoards ==
    \/ SetDataJob
    \/ \E l \in ListIdsShown, c \in CardIdsShown : DeleteCard(c, l)
    \/ DeleteCardCommit
    \/ \E b \in BoardIdsShown, l \in ListIdsShown : DeleteList(l, b)
    \/ DeleteListJob
    \/ ReturnJob
    \/ DeleteListCommit

\* the empty store, with a caller that issues up to two operations before it
\* awaits one
InitLive ==
    /\ boards = <<>>
    /\ lists = EmptyMap
    /\ cards = EmptyMap
    /\ loading = [boards |-> FALSE, saving |-> FALSE, error |-> Null]
    /\ localStorage = EmptyMap
    /\ storageMode = "ok"
    /\ queue = <<>>
    /\ created = [boards |-> 0, lists |-> 0, cards |-> 0]
    /\ outages = 0
    /\ ops = 0
    /\ clock = 0
    /\ inflight = 0
    /\ limit = MaxInFlight
    /\ last = NoOp
    /\ view = NoView

\* the job at the head of the queue runs
RunJob ==
    \/ SetDataJob
    \/ CreateBoardCommit
    \/ CreateListCommit
    \/ UpdateBoardCommit
    \/ LoadBoardsCommit

\* a store operation is called
IssueLive ==
    \/ \E t \in Titles : CreateBoard(t)
    \/ \E b \in BoardIdsShown, t \in Titles : CreateList(b, t)
    \/ \E b \in IdsGenerated, d \in UpdateBoardDatas : UpdateBoard(b, d)
    \/ \E b \in IdsGenerated \cup {GenerateId}, d \in UpdateBoardDatas : UpdateBoardFails(b, d)
    \/ LoadBoards

NextLive == RunJob \/ IssueLive

Spec == Init /\ [][Next]_vars
\* the event loop runs every queued job
SpecLive == InitLive /\ [][NextLive]_vars /\ WF_vars(RunJob)
SpecTwoBoards == InitTwoBoards /\ [][NextTwoBoards]_vars
SpecCreates == InitCreates /\ [][NextCreates]_vars
SpecEdits == InitPopulated /\ [][NextEdits]_vars
SpecMoves == InitMoves /\ [][NextMoves]_vars
SpecConcurrent == InitConcurrent /\ [][NextConcurrent]_vars
SpecAfterDelete == InitAfterDelete /\ [][NextAfterDelete]_vars
SpecFaulty == InitPopulated /\ [][NextFaulty]_vars
SpecCards == Init /\ [][NextCards]_vars
SpecLists == Init /\ [][NextLists]_vars

----------------------------------------------------------------------------
\* What the properties speak of

\* the positions of a collection are exactly 0..n-1
PositionsDense(s) == {s[i].position : i \in 1..Len(s)} = 0..(Len(s) - 1)
\* the position of every element is its index
PositionsAreIndices(s) == \A i \in 1..Len(s) : s[i].position = i - 1
\* no id occurs twice in a collection
NoDuplicateIds(s) == \A i, j \in 1..Len(s) : s[i].id = s[j].id => i = j
IdSet(s) == {s[i].id : i \in 1..Len(s)}
\* s with x inserted so that it gets the zero-based index at
InsertAt(s, at, x) == SubSeq(s, 1, at) \o <<x>> \o SubSeq(s, at + 1, Len(s))
Clamp(i, lo, hi) == IF i < lo THEN lo ELSE IF i > hi THEN hi ELSE i

\* the persisted collections, as getItem and JSON.parse give them
StoredBoards == IF "boards" \in DOMAIN localStorage THEN localStorage.boards ELSE <<>>
StoredListsMap == IF "lists" \in DOMAIN localStorage THEN localStorage.lists ELSE EmptyMap
StoredCardsMap == IF "cards" \in DOMAIN localStorage THEN localStorage.cards ELSE EmptyMap
StoredLists(b) == OrEmpty(Get(StoredListsMap, b))
StoredCards(l) == OrEmpty(Get(StoredCardsMap, l))

\* the in-memory collections, and those of the state the last operation was issued in
MemLists(b) == OrEmpty(Get(lists, b))
MemCards(l) == OrEmpty(Get(cards, l))
PreLists(b) == OrEmpty(Get(last.pre.lists, b))
PreCards(l) == OrEmpty(Get(last.pre.cards, l))

\* the last operation was a moveCard between two different lists that committed
MovedAcross ==
    /\ last.op = "moveCard"
    /\ ~last.failed
    /\ last.sourceListId # last.destListId

----------------------------------------------------------------------------
\* C1: whenever no operation is in flight in a session of createCard, deleteCard,
\* reorderCards and moveCard operations, the positions of the cards of every list
\* in memory are exactly 0..m-1.
C1_CardPositionsDense ==
    Idle => \A l \in DOMAIN cards : PositionsDense(MemCards(l))

\* C2: whenever no operation is in flight in a session of createList, deleteList
\* and reorderLists operations, the positions of the lists of every board in
\* memory are exactly 0..n-1.
C2_ListPositionsDense ==
    Idle => \A b \in DOMAIN lists : PositionsDense(MemLists(b))

\* C3: after deleteBoard(b) completed, neither memory nor storage holds a list
\* whose boardId is b, nor cards under the id of a list that b had.
C3_DeleteBoardCascades ==
    last.op = "deleteBoard" =>
        LET b == last.id
            listIds == IdSet(PreLists(b)) \cup
                       IdSet(OrEmpty(Get(GetDataFrom(last.pre.localStorage, "lists",
                                                     EmptyMap), b)))
        IN  /\ \A k \in DOMAIN lists :
                  \A i \in 1..Len(MemLists(k)) : MemLists(k)[i].boardId # b
            /\ \A k \in DOMAIN StoredListsMap :
                  \A i \in 1..Len(StoredLists(k)) : StoredLists(k)[i].boardId # b
            /\ \A l \in listIds : MemCards(l) = <<>> /\ StoredCards(l) = <<>>

\* C4: after a moveCard between two different lists committed, storage holds
\* under the source and under the destination the collections the move computed,
\* and the moved card is persisted in exactly one list.
C4_MovePersistsBothLists ==
    MovedAcross =>
        /\ StoredCards(last.sourceListId) = JsonArray(MemCards(last.sourceListId))
        /\ StoredCards(last.destListId) = JsonArray(MemCards(last.destListId))
        /\ Cardinality({l \in DOMAIN StoredCardsMap :
                          last.cardId \in IdSet(StoredCards(l))}) = 1

\* C5: when a setItem threw during createCard, the cards of the list in memory
\* are the ones before the call and the error slot holds a message.
C5_CreateCardWriteThrows ==
    (last.op = "createCard" /\ last.threw) =>
        /\ Get(cards, last.listId) = Get(last.pre.cards, last.listId)
        /\ loading.error # Null

\* C6: persist-first: a collection that a completed create, delete, reorder or
\* move changed in memory is in storage as it is in memory.
C6_PersistFirst ==
    last.op \in {"createBoard", "createList", "createCard", "deleteCard", "deleteList",
                 "deleteBoard", "reorderLists", "reorderCards", "moveCard"} =>
        /\ boards # last.pre.boards => StoredBoards = JsonArray(boards)
        /\ \A b \in DOMAIN lists :
              Get(lists, b) # Get(last.pre.lists, b) => StoredLists(b) = JsonArray(MemLists(b))
        /\ \A l \in DOMAIN cards :
              Get(cards, l) # Get(last.pre.cards, l) => StoredCards(l) = JsonArray(MemCards(l))

\* C7: after moveCard(c, src, dst, i) with src # dst, c in src and 0 <= i <= |dst|,
\* the source in memory is the old one without c in the same order, the
\* destination is the old one with c at index i, the two hold as many cards
\* together as before, the card at index i has listId dst, and positions are indices.
C7_MoveAcrossResult ==
    (MovedAcross /\ last.destIndex >= 0
                 /\ last.destIndex <= Len(PreCards(last.destListId))) =>
        LET src == last.sourceListId
            dst == last.destListId
        IN  /\ Ids(MemCards(src)) = Ids(FilterOut(PreCards(src), last.cardId))
            /\ Ids(MemCards(dst)) = InsertAt(Ids(PreCards(dst)), last.destIndex, last.cardId)
            /\ Len(MemCards(src)) + Len(MemCards(dst))
                   = Len(PreCards(src)) + Len(PreCards(dst))
            /\ MemCards(dst)[last.destIndex + 1].listId = dst
            /\ PositionsAreIndices(MemCards(src))
            /\ PositionsAreIndices(MemCards(dst))

\* C8: after moveCard with the source equal to the destination, on a list that
\* held every card id once, the list holds the same card ids, each once.
C8_MoveWithinListIsReorder ==
    (/\ last.op = "moveCard"
     /\ ~last.failed
     /\ last.sourceListId = last.destListId
     /\ NoDuplicateIds(PreCards(last.sourceListId))) =>
        /\ NoDuplicateIds(MemCards(last.sourceListId))
        /\ IdSet(MemCards(last.sourceListId)) = IdSet(PreCards(last.sourceListId))

\* C9: a moveCard whose card is not in the source list fails: the error slot
\* holds the not-found message, and memory and storage are as before the call.
C9_MoveMissingCardFails ==
    (/\ last.op = "moveCard"
     /\ ~HasCard(PreCards(last.sourceListId), last.cardId)) =>
        /\ last.failed
        /\ loading.error = "Card not found"
        /\ boards = last.pre.boards
        /\ lists = last.pre.lists
        /\ cards = last.pre.cards
        /\ localStorage = last.pre.localStorage

\* C9 happens: a card that is in another list was not found in a source list
\* that holds cards, and the move failed
C9_Witness ==
    /\ last.op = "moveCard"
    /\ last.failed
    /\ PreCards(last.sourceListId) # <<>>
    /\ last.sourceListId # last.destListId
    /\ HasCard(PreCards(last.destListId), last.cardId)

\* C10: moveCard inserts the card at destIndex clamped to [0, |dst|], for
\* every destIndex.
C10_MoveClampsDestIndex ==
    MovedAcross =>
        Ids(MemCards(last.destListId))
            = InsertAt(Ids(PreCards(last.destListId)),
                       Clamp(last.destIndex, 0, Len(PreCards(last.destListId))),
                       last.cardId)

----------------------------------------------------------------------------
\* s without the element at the zero-based index k
Without(s, k) == SubSeq(s, 1, k) \o SubSeq(s, k + 2, Len(s))
\* post is pre with the element at index i moved to index j, the others in order
MovedTo(pre, post, i, j) ==
    /\ Len(post) = Len(pre)
    /\ post[j + 1] = pre[i + 1]
    /\ Without(post, j) = Without(pre, i)
\* how often the id x occurs in a collection
CountId(s, x) == Cardinality({k \in 1..Len(s) : s[k].id = x})
\* the last operation was a reorder, of cards or of lists
Reordering == last.op \in {"reorderCards", "reorderLists"}
\* the collection the last reorder was called on, then and now, and as persisted
ReorderPre ==
    IF last.op = "reorderCards" THEN PreCards(last.listId) ELSE PreLists(last.boardId)
ReorderPost ==
    IF last.op = "reorderCards" THEN MemCards(last.listId) ELSE MemLists(last.boardId)
ReorderStored ==
    IF last.op = "reorderCards" THEN StoredCards(last.listId) ELSE StoredLists(last.boardId)

\* C11: after reorderCards(l, i, j) or reorderLists(b, i, j) with valid indices the
\* element that was at index i is at index j, the others keep their relative
\* order, every position is the index, and storage holds the collection that
\* memory holds; the write is done when the commit is about to run.
C11_ReorderMovesRenumbersPersists ==
    /\ Reordering =>
          /\ MovedTo(Ids(ReorderPre), Ids(ReorderPost), last.startIndex, last.endIndex)
          /\ PositionsAreIndices(ReorderPost)
          /\ ReorderStored = JsonArray(ReorderPost)
    /\ (queue # <<>> /\ Head(queue).pc = "reorderCards") =>
          StoredCards(Head(queue).listId) = JsonArray(Head(queue).updatedCards)
    /\ (queue # <<>> /\ Head(queue).pc = "reorderLists") =>
          StoredLists(Head(queue).boardId) = JsonArray(Head(queue).updatedLists)

\* C11 happens: cards [A, B] were reordered 0 to 1 and are now [B, A]
C11_Witness ==
    /\ last.op = "reorderCards"
    /\ Len(ReorderPre) = 2
    /\ last.startIndex = 0 /\ last.endIndex = 1
    /\ Ids(ReorderPost) = <<ReorderPre[2].id, ReorderPre[1].id>>
    /\ ReorderPre[1].id # ReorderPre[2].id

\* C12: a reorder keeps the length and the multiset of ids of the collection, and
\* a reorder with i = j keeps the order.
C12_ReorderIsPermutation ==
    Reordering =>
        /\ Len(ReorderPost) = Len(ReorderPre)
        /\ \A x \in IdSet(ReorderPre) \cup IdSet(ReorderPost) :
              CountId(ReorderPost, x) = CountId(ReorderPre, x)
        /\ last.startIndex = last.endIndex => Ids(ReorderPost) = Ids(ReorderPre)

\* C12 happens: a collection of three was reordered with different indices
C12_Witness ==
    /\ Reordering
    /\ Len(ReorderPre) = 3
    /\ last.startIndex # last.endIndex

\* the last operation was a reorder (i, j) with i # j that followed a reorder (j, i)
\* of the same collection
ReorderedBack ==
    /\ Reordering
    /\ last.origin # NoOp
    /\ last.startIndex # last.endIndex
    /\ last.origin.startIndex = last.endIndex
    /\ last.origin.endIndex = last.startIndex

\* C13: a reorder (i, j), i # j, followed by the reorder (j, i) of the same
\* collection restores the order and the positions the collection had.
C13_ReorderRoundTrip ==
    ReorderedBack =>
        /\ Ids(ReorderPost) = Ids(last.origin.before)
        /\ \A k \in 1..Len(ReorderPost) :
              ReorderPost[k].position = last.origin.before[k].position

\* C14: in every state each card id occurs in the collection of at most one list
\* and at most once in it, and the listId of a card is the key of the collection
\* that holds it.
C14_CardInOneList ==
    \A l \in DOMAIN cards :
        /\ NoDuplicateIds(MemCards(l))
        /\ \A i \in 1..Len(MemCards(l)) : MemCards(l)[i].listId = l
        /\ \A k \in DOMAIN cards \ {l} : IdSet(MemCards(l)) \cap IdSet(MemCards(k)) = {}

\* the ids of all cards a cards Record holds
AllCardIds(m) == UNION {IdSet(OrEmpty(m[l])) : l \in DOMAIN m}
\* the lists the last reorderCards or moveCard touched
Touched ==
    IF last.op = "reorderCards" THEN {last.listId}
    ELSE {last.sourceListId, last.destListId}
\* the cards that were created in list l while the last reorderCards or moveCard
\* was in flight: in memory when it committed, in no list when it was called
CreatedInFlight(l) == IdSet(OrEmpty(Get(last.at, l))) \ AllCardIds(last.pre.cards)

\* C15: a card whose createCard on list L completed while a reorderCards or
\* moveCard touching L was in flight is in L, in memory and in storage, after
\* that reorder or move committed.
C15_CommitKeepsCreatedCard ==
    (last.op \in {"reorderCards", "moveCard"} /\ ~last.failed) =>
        \A l \in Touched : \A c \in CreatedInFlight(l) :
            /\ c \in IdSet(MemCards(l))
            /\ c \in IdSet(StoredCards(l))

\* C16: when an updateCard that was issued while another updateCard of the same
\* card was in flight completes (the first update has completed before it, jobs
\* running first in, first out), the card of that id in memory is the one this
\* update wrote.
C16_LastUpdateWins ==
    (last.op = "updateCard" /\ ~last.failed /\ last.overlaps) =>
        \A i \in 1..Len(MemCards(last.listId)) :
            MemCards(last.listId)[i].id = last.id =>
                MemCards(last.listId)[i] = last.updatedCard

\* C16 happens: two updateCard calls of one card with different titles were in
\* flight together and both have completed
C16_Witness ==
    /\ last.op = "updateCard" /\ ~last.failed /\ last.overlaps
    /\ Idle
    /\ last.updatedCard.title = "C"
    /\ \E i \in 1..Len(MemCards(last.listId)) :
          /\ MemCards(last.listId)[i].id = last.id
          /\ MemCards(last.listId)[i].title = "C"

\* what the agreement of storage and memory compares: ids, order, positions and
\* parent references
CardCore(s) ==
    [i \in 1..Len(s) |-> [id |-> s[i].id, position |-> s[i].position,
                          listId |-> s[i].listId]]
ListCore(s) ==
    [i \in 1..Len(s) |-> [id |-> s[i].id, position |-> s[i].position,
                          boardId |-> s[i].boardId]]

\* C17: whenever no operation is in flight, with every write accepted so far, the
\* lists persisted for every board in memory and the cards persisted for every
\* list in memory are the ones memory holds.
C17_StorageAgreesWhenIdle ==
    (Idle /\ outages = 0) =>
        /\ \A b \in DOMAIN lists : ListCore(StoredLists(b)) = ListCore(MemLists(b))
        /\ \A l \in DOMAIN cards : CardCore(StoredCards(l)) = CardCore(MemCards(l))

\* C18: after a loadBoards, loadLists or loadCards whose read found the backing
\* store unavailable, the collection it loads is in memory as it was before the
\* call, and the error slot holds a message.
C18_LoadFailureKeepsMemory ==
    /\ (last.op = "loadBoards" /\ last.readFailed) =>
          boards = last.pre.boards /\ loading.error # Null
    /\ (last.op = "loadLists" /\ last.readFailed) =>
          Get(lists, last.boardId) = Get(last.pre.lists, last.boardId) /\ loading.error # Null
    /\ (last.op = "loadCards" /\ last.readFailed) =>
          Get(cards, last.listId) = Get(last.pre.cards, last.listId) /\ loading.error # Null

\* the store operations that make one StorageService call with one write
SingleWriteOps == {"createCard", "deleteCard", "reorderLists", "reorderCards"}
\* the loads
LoadOps == {"loadBoards", "loadLists", "loadCards"}

\* C19: with the backing store not accepting writes, the write of a StorageService
\* call leaves the stored data as it was and the caller gets a failure outcome;
\* with the backing store unavailable, a read gives the supplied default.
C19_UnavailableStoreFailsWrites ==
    /\ (last.op \in SingleWriteOps /\ last.threw) =>
          /\ localStorage = last.pre.localStorage
          /\ last.failed
    /\ (last.op = "loadBoards" /\ last.readFailed) => boards = <<>>
    /\ (last.op = "loadLists" /\ last.readFailed) => Get(lists, last.boardId) = <<>>
    /\ (last.op = "loadCards" /\ last.readFailed) => Get(cards, last.listId) = <<>>

\* C20: when a store operation has completed after something in it failed (it
\* threw, or a write of its StorageService call threw), the error slot holds a
\* message.
C20_FailureSetsErrorSlot ==
    (last.op # "none" /\ (last.failed \/ last.threw \/
                          (last.op \in LoadOps /\ last.readFailed))) =>
        loading.error # Null


----------------------------------------------------------------------------
\* the last operation was an update of an entity whose id no in-memory collection
\* of its kind held when it was called
UpdateOfUnknownId ==
    \/ /\ last.op = "updateBoard"
       /\ FindIndex(last.pre.boards, last.id) < 0
    \/ /\ last.op = "updateList"
       /\ \A b \in DOMAIN last.pre.lists : last.id \notin IdSet(PreLists(b))
    \/ /\ last.op = "updateCard"
       /\ last.id \notin AllCardIds(last.pre.cards)
\* the message of the not-found error of the last update
NotFoundMessage ==
    IF last.op = "updateBoard" THEN "Board not found"
    ELSE IF last.op = "updateList" THEN "List not found" ELSE "Card not found"

\* C21: an updateBoard, updateList or updateCard of an id that no in-memory
\* collection holds fails with the not-found error: storage and memory are as
\* before the call, the error slot holds the not-found message and the saving
\* flag is off.
C21_UpdateUnknownIdNotFound ==
    UpdateOfUnknownId =>
        /\ last.failed
        /\ localStorage = last.pre.localStorage
        /\ boards = last.pre.boards
        /\ lists = last.pre.lists
        /\ cards = last.pre.cards
        /\ loading.error = NotFoundMessage
        /\ ~loading.saving


\* C22: after a createCard or createList committed, the entity it created is the
\* last of its collection in memory and its position is its index.
C22_CreatedAtTailPositionIsIndex ==
    /\ last.op = "createCard" =>
          LET s == MemCards(last.listId)
          IN  /\ s # <<>>
              /\ s[Len(s)].id = last.id
              /\ s[Len(s)].position = Len(s) - 1
    /\ last.op = "createList" =>
          LET s == MemLists(last.boardId)
          IN  /\ s # <<>>
              /\ s[Len(s)].id = last.id
              /\ s[Len(s)].position = Len(s) - 1


\* a collection as it is after every timestamp of its persisted form was turned
\* back into a Date
Revived(s) == [i \in 1..Len(s) |-> Revive(s[i])]

\* C23: after a load that read the backing store, the loaded collection in memory
\* is the persisted one with every createdAt and updatedAt a Date of the instant
\* that was saved; for the boards, for the lists of the board and for the cards of
\* the list alike.
C23_TimestampsRoundTrip ==
    /\ (last.op = "loadBoards" /\ ~last.readFailed) => boards = Revived(StoredBoards)
    /\ (last.op = "loadLists" /\ ~last.readFailed) =>
          MemLists(last.boardId) = Revived(StoredLists(last.boardId))
    /\ (last.op = "loadCards" /\ ~last.readFailed) =>
          MemCards(last.listId) = Revived(StoredCards(last.listId))


\* the persisted lists and cards of the state the last operation was issued in
PreStoredListsMap == GetDataFrom(last.pre.localStorage, "lists", EmptyMap)
PreStoredCardsMap == GetDataFrom(last.pre.localStorage, "cards", EmptyMap)

\* C24: after deleteList(id, boardId) completed, the list is not in the board's
\* collection and no cards are held under its id, in memory and in storage; the
\* lists of the other boards and the cards of the other lists are as before.
C24_DeleteListCascades ==
    last.op = "deleteList" =>
        /\ last.id \notin IdSet(MemLists(last.boardId))
        /\ last.id \notin IdSet(StoredLists(last.boardId))
        /\ MemCards(last.id) = <<>>
        /\ StoredCards(last.id) = <<>>
        /\ Remove(lists, last.boardId) = Remove(last.pre.lists, last.boardId)
        /\ Remove(StoredListsMap, last.boardId) = Remove(PreStoredListsMap, last.boardId)
        /\ Remove(cards, last.id) = Remove(last.pre.cards, last.id)
        /\ Remove(StoredCardsMap, last.id) = Remove(PreStoredCardsMap, last.id)

\* C24 happens: a list that held cards was deleted from its board while another
\* board has a list and other lists hold cards
C24_Witness ==
    /\ last.op = "deleteList"
    /\ last.id \in IdSet(PreLists(last.boardId))
    /\ PreCards(last.id) # <<>>
    /\ JsonArray(PreCards(last.id)) = OrEmpty(Get(PreStoredCardsMap, last.id))
    /\ \E b \in DOMAIN lists \ {last.boardId} : MemLists(b) # <<>>
    /\ \E l \in DOMAIN cards \ {last.id} : MemCards(l) # <<>> /\ StoredCards(l) # <<>>


CommitPcs == {"createBoard", "createList", "createCard", "updateBoard", "updateList",
              "updateCard", "deleteBoardCommit", "deleteListCommit", "deleteCard",
              "reorderLists", "reorderCards", "moveCard",
              "loadBoards", "loadLists", "loadCards"}

\* C26: memory changes only in the step in which the continuation of a store
\* operation runs its one set(), and the step in which a moveCard between two
\* different lists commits leaves the moved card in the destination and not in
\* the source: no state in between shows it in neither or in both.
C26_MemoryChangesAtomically ==
    [][/\ (boards' # boards \/ lists' # lists \/ cards' # cards) =>
             /\ queue # <<>>
             /\ Head(queue).pc \in CommitPcs
             /\ queue' = Tail(queue)
       /\ (/\ queue # <<>>
           /\ Head(queue).pc = "moveCard"
           /\ queue' = Tail(queue)
           /\ Head(queue).sourceListId # Head(queue).destListId) =>
             /\ Head(queue).cardId \in IdSet(OrEmpty(Get(cards', Head(queue).destListId)))
             /\ Head(queue).cardId \notin IdSet(OrEmpty(Get(cards', Head(queue).sourceListId)))
      ]_vars

\* C26 happens: a card was moved out of a list that keeps another card, and it is
\* in the destination and no longer in the source
C26_Witness ==
    /\ MovedAcross
    /\ Len(PreCards(last.sourceListId)) = 2
    /\ last.cardId \in IdSet(MemCards(last.destListId))
    /\ last.cardId \notin IdSet(MemCards(last.sourceListId))
    /\ Len(MemCards(last.sourceListId)) = 1


\* every entity of a Record of collections, and of the boards
Entities(m) == UNION {{OrEmpty(m[k])[i] : i \in 1..Len(OrEmpty(m[k]))} : k \in DOMAIN m}
BoardEntities(s) == {s[i] : i \in 1..Len(s)}
\* the instant a timestamp denotes
Instant(ts) == ts.t
\* the step is the commit of an operation that neither adds nor removes entities
EditCommits ==
    /\ queue # <<>>
    /\ Head(queue).pc \in {"updateBoard", "updateList", "updateCard",
                           "reorderLists", "reorderCards", "moveCard"}
    /\ queue' = Tail(queue)

\* the values the field has in the entities of an id
FieldOf(es, id, field) == {x[field] : x \in {y \in es : y.id = id}}
InstantsOf(es, id) == {Instant(x.createdAt) : x \in {y \in es : y.id = id}}
\* the ids of a set of entities
IdsOf(es) == {x.id : x \in es}
\* the step is the commit of the moveCard of the card
MoveCommitOf(id) ==
    /\ queue # <<>>
    /\ Head(queue).pc = "moveCard"
    /\ Head(queue).cardId = id
    /\ queue' = Tail(queue)

\* C27: no step gives an entity that memory holds another creation instant, or a
\* list another boardId; a card gets another listId only in the step that commits
\* the moveCard of that card; and the commit of an update, a reorder or a move
\* leaves the ids memory holds as they are (an entity keeps its id).
C27_IdentityFieldsFrozen ==
    [][/\ \A id \in IdSet(boards) \cap IdSet(boards') :
             InstantsOf(BoardEntities(boards'), id) \subseteq InstantsOf(BoardEntities(boards), id)
       /\ \A id \in IdsOf(Entities(lists)) \cap IdsOf(Entities(lists')) :
             /\ InstantsOf(Entities(lists'), id) \subseteq InstantsOf(Entities(lists), id)
             /\ FieldOf(Entities(lists'), id, "boardId")
                    \subseteq FieldOf(Entities(lists), id, "boardId")
       /\ \A id \in IdsOf(Entities(cards)) \cap IdsOf(Entities(cards')) :
             /\ InstantsOf(Entities(cards'), id) \subseteq InstantsOf(Entities(cards), id)
             /\ \/ FieldOf(Entities(cards'), id, "listId")
                       \subseteq FieldOf(Entities(cards), id, "listId")
                \/ MoveCommitOf(id)
       /\ EditCommits =>
             /\ IdSet(boards') = IdSet(boards)
             /\ IdsOf(Entities(lists')) = IdsOf(Entities(lists))
             /\ IdsOf(Entities(cards')) = IdsOf(Entities(cards))
      ]_vars


\* the indices of the cards of post whose position is not the one they had in pre
Rewritten(pre, post) ==
    {i \in 1..Len(post) :
        \E k \in 1..Len(pre) : pre[k].id = post[i].id /\ pre[k].position # post[i].position}
\* the cards at these indices carry the time the last operation was called at
Refreshed(s, indices) == \A i \in indices : Instant(s[i].updatedAt) = last.pre.now

\* C28: after an updateCard the updated card, after a moveCard the moved card and
\* every card of the source and of the destination whose position was rewritten,
\* and after a reorderCards every card whose position was rewritten, carry the
\* time of the operation in updatedAt.
C28_CardWritesRefreshUpdatedAt ==
    /\ (last.op = "updateCard" /\ ~last.failed) =>
          Refreshed(MemCards(last.listId),
                    {i \in 1..Len(MemCards(last.listId)) : MemCards(last.listId)[i].id = last.id})
    /\ MovedAcross =>
          /\ Refreshed(MemCards(last.destListId),
                       {i \in 1..Len(MemCards(last.destListId)) :
                           MemCards(last.destListId)[i].id = last.cardId})
          /\ Refreshed(MemCards(last.sourceListId),
                       Rewritten(PreCards(last.sourceListId), MemCards(last.sourceListId)))
          /\ Refreshed(MemCards(last.destListId),
                       Rewritten(PreCards(last.destListId), MemCards(last.destListId)))
    /\ last.op = "reorderCards" =>
          Refreshed(MemCards(last.listId),
                    Rewritten(PreCards(last.listId), MemCards(last.listId)))


C30_SavingWhileInFlight ==
    inflight > 0 => loading.saving

----------------------------------------------------------------------------
\* the operations whose storage read is on the queue
InFlight(pc) == \E k \in 1..Len(queue) : queue[k].pc = pc
\* the flags of LoadingState that tell the views that data is being fetched or written
Busy == loading.boards \/ loading.saving

\* C31: a load marks its collection as loading while its storage read is in flight
\* and as loaded once it has succeeded, for loadLists and loadCards as for
\* loadBoards: while the read of a load is on the queue a flag of the loading
\* state is on (loading.boards for loadBoards), and when the load has completed
\* with nothing else in flight loading.boards is off.
C31_LoadMarksLoading ==
    /\ InFlight("loadBoards") => loading.boards
    /\ InFlight("loadLists") => Busy
    /\ InFlight("loadCards") => Busy
    /\ (last.op \in LoadOps /\ inflight = 0) => ~loading.boards
\* the part of C31 that is about loadBoards
C31_LoadBoardsMarksLoading ==
    /\ InFlight("loadBoards") => loading.boards
    /\ (last.op = "loadBoards" /\ inflight = 0) => ~loading.boards


\* the ids of the lists and of the cards that a record of collections holds
AllListIds(m) == UNION {IdSet(OrEmpty(m[b])) : b \in DOMAIN m}

\* C33: creations that were issued without awaiting each other are all durable
\* once they have completed: with no operation in flight, every list and every
\* card that createList and createCard put into memory is in storage.
C33_OverlappingCreatesAreStored ==
    (Idle /\ inflight = 0) =>
        /\ AllListIds(lists) \subseteq AllListIds(StoredListsMap)
        /\ AllCardIds(cards) \subseteq AllCardIds(StoredCardsMap)


\* C34: an update of an entity that memory holds succeeds whatever ran before it:
\* an updateCard of a card that was in a card collection when it was called, and
\* an updateList of a list that was in a list collection when it was called, did
\* not fail.
C34_UpdateOfPresentSucceeds ==
    /\ (last.op = "updateCard" /\ last.id \in AllCardIds(last.pre.cards)) => ~last.failed
    /\ (last.op = "updateList" /\ last.id \in AllListIds(last.pre.lists)) => ~last.failed

\* the page loaded again on what an earlier page stored, the board opened and its
\* lists loaded: a board with three lists, and nothing created on this page yet
\* (generateId gave the stored entities their ids on the earlier page)
InitReloaded ==
    LET board == [id |-> 11, title |-> "A", createdAt |-> Date(0), updatedAt |-> Date(0)]
        list(id) == [id |-> id, title |-> "A", boardId |-> 11, position |-> id - 12,
                     createdAt |-> [t |-> 0, date |-> FALSE]]
    IN  /\ boards = <<board>>
        /\ lists = (11 :> <<list(12), list(13), list(14)>>)
        /\ cards = EmptyMap
        /\ loading = [boards |-> FALSE, saving |-> FALSE, error |-> Null]
        /\ localStorage = [boards |-> JsonArray(<<board>>),
                           lists |-> JsonRecord(11 :> <<list(12), list(13), list(14)>>)]
        /\ storageMode = "ok"
        /\ queue = <<>>
        /\ created = [boards |-> 0, lists |-> 0, cards |-> 0]
        /\ outages = 0
        /\ ops = 0
        /\ clock = 0
        /\ inflight = 0
        /\ limit = 1
        /\ last = NoOp
        /\ view = NoView

SpecReloaded == InitReloaded /\ [][NextLists]_vars

\* Board.tsx: [...boardLists].sort((a, b) => a.position - b.position), a stable
\* sort: x goes in front of the first element whose position is not smaller
RECURSIVE SortByPosition(_)
SortByPosition(s) ==
    IF s = <<>> THEN <<>>
    ELSE LET rest == SortByPosition(Tail(s))
             smaller == {i \in 1..Len(rest) : rest[i].position < Head(s).position}
         IN  SubSeq(rest, 1, Cardinality(smaller)) \o <<Head(s)>>
                 \o SubSeq(rest, Cardinality(smaller) + 1, Len(rest))
\* const boardLists = lists[boardId!] || []; const sortedLists = ...
SortedLists(boardId) == SortByPosition(OrEmpty(Get(lists, boardId)))

\* C35: in every state the lists of a board are in memory in the order of their
\* positions: the index of a list in the position-sorted view that the drag
\* handler reads is its index in the array that reorderLists moves.
C35_ArrayOrderIsPositionOrder ==
    \A b \in DOMAIN lists : Ids(SortedLists(b)) = Ids(OrEmpty(lists[b]))


\* the page loaded again on two stored boards, the first with a stored list; both
\* boards were opened, and on this page a list was created on the second board
\* and a card in each list; the caller issues up to two operations before it
\* awaits one
InitParents ==
    LET board(id) == [id |-> id, title |-> "A", createdAt |-> Date(0), updatedAt |-> Date(0)]
        stored == [id |-> 13, title |-> "A", boardId |-> 11, position |-> 0,
                   createdAt |-> JsonTs(Date(0))]
        list == [id |-> 1, title |-> "A", boardId |-> 12, position |-> 0,
                 createdAt |-> Date(0)]
        card(id, listId) ==
            [id |-> id, title |-> "A", listId |-> listId, position |-> 0,
             createdAt |-> Date(0), updatedAt |-> Date(0)]
        allLists == (11 :> <<stored>>) @@ (12 :> <<list>>)
        allCards == (13 :> <<card(2, 13)>>) @@ (1 :> <<card(3, 1)>>)
    IN  /\ boards = <<board(11), board(12)>>
        /\ lists = allLists
        /\ cards = allCards
        /\ loading = [boards |-> FALSE, saving |-> FALSE, error |-> Null]
        /\ localStorage = [boards |-> JsonArray(<<board(11), board(12)>>),
                           lists |-> JsonRecord(allLists),
                           cards |-> JsonRecord(allCards)]
        /\ storageMode = "ok"
        /\ queue = <<>>
        /\ created = [boards |-> 0, lists |-> 1, cards |-> 2]
        /\ outages = 0
        /\ ops = 0
        /\ clock = 0
        /\ inflight = 0
        /\ limit = MaxInFlight
        /\ last = NoOp
        /\ view = NoView

\* the operations on the lists of one board and on the cards of one list, issued
\* without awaiting each one
NextParents ==
    \/ SetDataJob
    \/ \E b \in BoardIdsShown : LoadLists(b)
    \/ LoadListsCommit
    \/ \E b \in BoardIdsShown, t \in Titles : CreateList(b, t)
    \/ CreateListCommit
    \/ \E b \in BoardIdsShown :
          \E i, j \in DragIndices(Len(OrEmpty(Get(lists, b)))) : ReorderLists(b, i, j)
    \/ ReorderListsCommit
    \/ \E l \in ListIdsShown : LoadCards(l)
    \/ LoadCardsCommit
    \/ \E l \in ListIdsShown, t \in Titles : CreateCard(l, t)
    \/ CreateCardCommit
    \/ \E l \in ListIdsShown, c \in CardIdsShown : DeleteCard(c, l)
    \/ DeleteCardCommit
    \/ \E l \in ListIdsShown :
          \E i, j \in DragIndices(Len(OrEmpty(Get(cards, l)))) : ReorderCards(l, i, j)
    \/ ReorderCardsCommit

SpecParents == InitParents /\ [][NextParents]_vars

\* the parent whose collection the continuation f of a store operation assigns
ParentOf(f) ==
    IF f.pc \in {"loadLists", "reorderLists"} THEN f.boardId
    ELSE IF f.pc = "createList" THEN f.list.boardId
    ELSE IF f.pc = "createCard" THEN f.card.listId
    ELSE f.listId
\* the step runs the continuation of one of the operations pcs
Commits(pcs) == queue # <<>> /\ Head(queue).pc \in pcs /\ queue' = Tail(queue)

\* C36: an operation on one parent changes that parent's collection only: the
\* step in which loadLists, createList or reorderLists on a board runs its set()
\* leaves the lists of every other board and all cards as they were, and the step
\* in which loadCards, createCard, deleteCard or reorderCards on a list runs its
\* set() leaves the cards of every other list as they were.
C36_OnlyTheParentChanges ==
    [][/\ Commits({"loadLists", "createList", "reorderLists"}) =>
             /\ Remove(lists', ParentOf(Head(queue))) = Remove(lists, ParentOf(Head(queue)))
             /\ cards' = cards
       /\ Commits({"loadCards", "createCard", "deleteCard", "reorderCards"}) =>
             Remove(cards', ParentOf(Head(queue))) = Remove(cards, ParentOf(Head(queue)))
      ]_vars

\* C36 happens: a createCard on one list has put its card into memory while a
\* reorderCards on the list of the other board is in flight, and that list holds
\* its card
C36_Witness ==
    /\ last.op = "createCard" /\ ~last.failed
    /\ Len(MemCards(last.listId)) = Len(PreCards(last.listId)) + 1
    /\ \E k \in 1..Len(queue) :
          /\ queue[k].pc = "reorderCards"
          /\ queue[k].listId # last.listId
          /\ MemCards(queue[k].listId) # <<>>


\* the operations that start with set({ loading: { ..., saving: true, error: null } })
ClearingOps == {"createBoard", "createList", "createCard", "updateBoard", "updateList",
                "updateCard", "deleteBoard", "deleteList", "deleteCard", "loadBoards"}

\* C38: the error slot tells how the most recent operation ended: when a store
\* operation has completed without failing and nothing is in flight,
\* loading.error is null, whichever operation it was.
C38_SuccessClearsError ==
    (last.op # "none" /\ ~last.failed /\ inflight = 0 /\ Idle) => loading.error = Null
\* the part of C38 that is about the operations that clear the slot when they start
C38_ClearingOpsClearError ==
    (last.op \in ClearingOps /\ ~last.failed /\ inflight = 0 /\ Idle) => loading.error = Null


----------------------------------------------------------------------------
\* The components: BoardList and Board, their renders and their effects

\* how many times the effect of BoardList may call loadBoards
MaxCalls == 3

\* the frames of the loads an effect calls; then is the continuation of the
\* function that awaits the load
LoadBoardsFrame(then) ==
    [pc |-> "loadBoards", boards |-> GetData("boards", <<>>),
     readFailed |-> ~IsStorageAvailable, origin |-> NoOp,
     pre |-> Snapshot, threw |-> FALSE, then |-> then]
LoadListsFrame(boardId, then) ==
    [pc |-> "loadLists", boardId |-> boardId,
     boardLists |-> OrEmpty(Get(GetData("lists", EmptyMap), boardId)),
     readFailed |-> ~IsStorageAvailable, pre |-> Snapshot, threw |-> FALSE, then |-> then]
LoadCardsFrame(listId) ==
    [pc |-> "loadCards", listId |-> listId,
     listCards |-> OrEmpty(Get(GetData("cards", EmptyMap), listId)),
     readFailed |-> ~IsStorageAvailable, pre |-> Snapshot, threw |-> FALSE]

\* dependencies that name the boards as well
BoardListDepsWithBoards == <<"loadBoards", boards>>
\* [loadBoards]: the function create() made once; set() keeps it
BoardListDeps == <<"loadBoards">>
\* what BoardList renders from: boards, loading and modal of useAppStore()
Seen == [boards |-> boards, loading |-> loading, modal |-> view.modal]

\* the route "/" renders BoardList for the first time and its effect runs
MountBoardList ==
    /\ ~view.boardList.mounted
    /\ ~view.board.open
    /\ queue' = Append(queue, LoadBoardsFrame(<<>>))
    /\ loading' = [loading EXCEPT !.boards = TRUE, !.error = Null]
    /\ inflight' = inflight + 1
    /\ last' = NoOp
    /\ view' = [view EXCEPT !.boardList =
                   [mounted |-> TRUE, deps |-> BoardListDeps, seen |-> Seen, calls |-> 1]]
    /\ UNCHANGED <<boards, lists, cards, localStorage, created, ops, storageMode, outages,
                   clock, limit>>

\* the store changed and BoardList renders again; its effect runs again when a
\* dependency is not the one of the render before
BoardListRender ==
    /\ view.boardList.mounted
    /\ view.boardList.seen # Seen
    /\ IF BoardListDeps = view.boardList.deps
       THEN /\ view' = [view EXCEPT !.boardList.seen = Seen]
            /\ UNCHANGED <<queue, loading, inflight, last>>
       ELSE /\ view.boardList.calls < MaxCalls
            /\ queue' = Append(queue, LoadBoardsFrame(<<>>))
            /\ loading' = [loading EXCEPT !.boards = TRUE, !.error = Null]
            /\ inflight' = inflight + 1
            /\ last' = NoOp
            /\ view' = [view EXCEPT !.boardList.seen = Seen,
                                    !.boardList.deps = BoardListDeps,
                                    !.boardList.calls = @ + 1]
    /\ UNCHANGED <<boards, lists, cards, localStorage, created, ops, storageMode, outages,
                   clock, limit>>

\* openCreateModal and closeModal: setModal({ isOpen: ... })
OpenModal ==
    /\ view.boardList.mounted
    /\ ~view.modal
    /\ view' = [view EXCEPT !.modal = TRUE]
    /\ UNCHANGED <<boards, lists, cards, loading, localStorage, storageMode, queue, created,
                   ops, outages, clock, inflight, limit, last>>
CloseModal ==
    /\ view.boardList.mounted
    /\ view.modal
    /\ view' = [view EXCEPT !.modal = FALSE]
    /\ UNCHANGED <<boards, lists, cards, loading, localStorage, storageMode, queue, created,
                   ops, outages, clock, inflight, limit, last>>

\* handleCreateBoard and handleDeleteBoard of the mounted BoardList
HandleCreateBoard(title) == view.boardList.mounted /\ CreateBoard(title)
HandleDeleteBoard(boardId) == view.boardList.mounted /\ DeleteBoard(boardId)

\* a page opened on "/" with a board that an earlier page stored
InitBoardList ==
    LET board == [id |-> 11, title |-> "A", createdAt |-> Date(0), updatedAt |-> Date(0)]
    IN  /\ boards = <<>>
        /\ lists = EmptyMap
        /\ cards = EmptyMap
        /\ loading = [boards |-> FALSE, saving |-> FALSE, error |-> Null]
        /\ localStorage = [boards |-> JsonArray(<<board>>)]
        /\ storageMode = "ok"
        /\ queue = <<>>
        /\ created = [boards |-> 0, lists |-> 0, cards |-> 0]
        /\ outages = 0
        /\ ops = 0
        /\ clock = 0
        /\ inflight = 0
        /\ limit = 1
        /\ last = NoOp
        /\ view = NoView

NextBoardList ==
    \/ MountBoardList
    \/ BoardListRender
    \/ LoadBoardsCommit
    \/ OpenModal
    \/ CloseModal
    \/ \E t \in Titles : HandleCreateBoard(t)
    \/ SetDataJob
    \/ CreateBoardCommit
    \/ \E b \in BoardIdsShown : HandleDeleteBoard(b)
    \/ DeleteBoardJob
    \/ DeleteBoardDataReadJob
    \/ DeleteBoardDataWriteJob
    \/ ReturnJob
    \/ DeleteBoardCommit

SpecBoardList == InitBoardList /\ [][NextBoardList]_vars

\* C32: mounting the board list view calls loadBoards exactly once: whatever the
\* store state becomes afterwards (boards loaded, created or deleted, the modal
\* opened or closed), the effect of the mounted BoardList has called loadBoards
\* once.
C32_LoadBoardsOnceOnMount ==
    view.boardList.mounted => view.boardList.calls = 1

\* C32 happens: BoardList was mounted, its loadBoards has put the stored board
\* into memory, the modal was opened, and BoardList has rendered all of that
C32_Witness ==
    /\ view.boardList.mounted
    /\ view.boardList.calls = 1
    /\ boards # <<>>
    /\ view.modal
    /\ view.boardList.seen = Seen
    /\ Idle


\* the boards a route "/board/:boardId" can name
BoardIdsStored == IdSet(StoredBoards)

\* the route "/board/:boardId" renders Board for the first time
OpenBoard(boardId) ==
    /\ ~view.board.open
    /\ ~view.boardList.mounted
    /\ view' = [view EXCEPT !.board =
                   [open |-> TRUE, boardId |-> boardId, changed |-> TRUE,
                    length |-> Len(boards)]]
    /\ UNCHANGED <<boards, lists, cards, loading, localStorage, storageMode, queue, created,
                   ops, outages, clock, inflight, limit, last>>

\* Board has rendered with a dependency of its effect that is not the one of the
\* render before: it was just mounted, state.lists is a new object, or
\* boards.length is another number
EffectPending ==
    /\ view.board.open
    /\ view.board.changed \/ view.board.length # Len(boards)

\* the effect of Board runs initializeBoard up to its first await: loadBoards
\* when no board is in memory, loadLists otherwise; the function keeps the lists
\* of the render it was made in
BoardEffect ==
    /\ EffectPending
    /\ LET rest == [pc |-> "initializeBoard", step |-> "loadCards",
                    boardId |-> view.board.boardId,
                    boardLists |-> OrEmpty(Get(lists, view.board.boardId))]
       IN  IF Len(boards) = 0
           THEN /\ queue' = Append(queue,
                       LoadBoardsFrame(<<[rest EXCEPT !.step = "loadLists"]>>))
                /\ loading' = [loading EXCEPT !.boards = TRUE, !.error = Null]
           ELSE /\ queue' = Append(queue, LoadListsFrame(view.board.boardId, <<rest>>))
                /\ loading' = loading
    /\ inflight' = inflight + 1
    /\ last' = NoOp
    /\ view' = [view EXCEPT !.board.changed = FALSE, !.board.length = Len(boards)]
    /\ UNCHANGED <<boards, lists, cards, localStorage, created, ops, storageMode, outages,
                   clock, limit>>

\* initializeBoard after an await: after loadBoards it calls loadLists, after
\* loadLists it calls loadCards for every list of the lists it kept
InitializeBoardJob ==
    /\ queue # <<>>
    /\ Head(queue).pc = "initializeBoard"
    /\ LET f == Head(queue)
           calls == [i \in 1..Len(f.boardLists) |-> LoadCardsFrame(f.boardLists[i].id)]
       IN  IF f.step = "loadLists"
           THEN /\ queue' = Append(Tail(queue),
                       LoadListsFrame(f.boardId, <<[f EXCEPT !.step = "loadCards"]>>))
                /\ inflight' = inflight + 1
                /\ last' = NoOp
           ELSE /\ queue' = Tail(queue) \o calls
                /\ inflight' = inflight + Len(calls)
                /\ last' = IF calls = <<>> THEN last ELSE NoOp
    /\ UNCHANGED <<boards, lists, cards, loading, localStorage, created, ops, envVars>>

\* a page opened on a board: two stored boards, the first with two lists and a
\* card in the first list, and nothing in memory yet
InitBoard ==
    LET board(id) == [id |-> id, title |-> "A", createdAt |-> Date(0), updatedAt |-> Date(0)]
        list(id, boardId, position) ==
            [id |-> id, title |-> "A", boardId |-> boardId, position |-> position,
             createdAt |-> Date(0)]
        card == [id |-> 16, title |-> "A", listId |-> 13, position |-> 0,
                 createdAt |-> Date(0), updatedAt |-> Date(0)]
    IN  /\ boards = <<>>
        /\ lists = EmptyMap
        /\ cards = EmptyMap
        /\ loading = [boards |-> FALSE, saving |-> FALSE, error |-> Null]
        /\ localStorage =
               [boards |-> JsonArray(<<board(11), board(12)>>),
                lists |-> JsonRecord((11 :> <<list(13, 11, 0), list(14, 11, 1)>>)
                                         @@ (12 :> <<list(15, 12, 0)>>)),
                cards |-> JsonRecord(13 :> <<card>>)]
        /\ storageMode = "ok"
        /\ queue = <<>>
        /\ created = [boards |-> 0, lists |-> 0, cards |-> 0]
        /\ outages = 0
        /\ ops = 0
        /\ clock = 0
        /\ inflight = 0
        /\ limit = 1
        /\ last = NoOp
        /\ view = NoView

\* a job of the queue runs
RunBoardJob ==
    \/ LoadBoardsCommit
    \/ LoadListsCommit
    \/ LoadCardsCommit
    \/ InitializeBoardJob

NextBoard ==
    \/ \E b \in BoardIdsStored : OpenBoard(b)
    \/ BoardEffect
    \/ RunBoardJob

\* the jobs of the queue run, and React runs an effect whose dependencies changed
SpecBoard == InitBoard /\ [][NextBoard]_vars /\ WF_vars(RunBoardJob) /\ WF_vars(BoardEffect)

\* nothing is in flight and no effect is due
Quiescent == Idle /\ inflight = 0 /\ ~EffectPending

\* C37: opening a board starts finitely many loads: from some point on, an open
\* Board has no load in flight and no run of its initialisation effect is due.
C37_BoardLoadsQuiesce == <>[](view.board.open => Quiescent)
====
